---- MODULE Spec2Model ----
(***************************************************************************)
(* A model of froyo's member-device layer (src/src/blockdev.rs) and of the *)
(* zone carving of the pool builder (src/src/froyo.rs).                    *)
(*                                                                         *)
(* Part 1: one Member (BlockDev): the in-memory MDA descriptors, the two   *)
(* on-disk header copies and the two MDA payload zones with their trailer  *)
(* copies; save_state with an I/O failure or a crash at any step.          *)
(* Part 2: the space map of the Members of one pool and                    *)
(* create_redundant_zone.                                                  *)
(***************************************************************************)
EXTENDS Integers, Sequences, FiniteSets, TLC

VARIABLES
    bd,          \* the in-memory BlockDev of the Member under test
    disk,        \* what the Member's block device holds
    last,        \* the last BlockDev operation, its result, and where it stopped
    lastOkSlot,  \* the MDA slot written by the last save_state that returned Ok
    now,         \* the last timestamp handed out by a monotone clock
    calls,       \* save_state calls made so far
    pool,        \* block_devs of the pool being created: sectors and linear_devs
    carve,       \* the last create_redundant_zone call: what it computed and returned
    sizing,      \* the region and bitmap sizes computed for one zone
    raid,        \* the RaidDev last built by RaidDev::create, and the last call on it
    thin,        \* the last operation on the thin pool or a thin volume
    froyo        \* the last operation on a whole pool (create, discover, save, status)

vars == <<bd, disk, last, lastOkSlot, now, calls, pool, carve, sizing, raid, thin, froyo>>

mdaVars == <<bd, disk, last, lastOkSlot, now, calls>>
poolVars == <<pool, carve>>
raidVars == <<sizing, raid>>
topVars == <<thin, froyo>>

----------------------------------------------------------------------------
(* Bounds of the model *)

MaxCalls == 3          \* save_state calls in one behaviour
MaxSec == 1            \* timestamps have sec in 0..MaxSec
MaxNsec == 1           \* and nsec in 0..MaxNsec
MaxByte == 2           \* payload bytes are 1..MaxByte (0 is a never-written byte)
CastBits == 3          \* width of the integer casts of the header codec
CrcBits == 2           \* width of the payload checksum
HdrCrcBits == 4        \* width of the header checksum

(* consts.rs, scaled: bytes an MDA payload zone holds                      *)
(* (MDAX_ZONE_SECTORS * SECTOR_SIZE)                                       *)
MDAX_ZONE_BYTES == 1

Slots == {"A", "B"}
Secs == 0..MaxSec
Nsecs == 0..MaxNsec
(* The timestamps a caller hands to save_state: after the epoch, so never  *)
(* the (0, 0) that marks an unused slot.                                   *)
Times == [sec : Secs, nsec : Nsecs] \ {[sec |-> 0, nsec |-> 0]}
Bytes == 1..MaxByte

RECURSIVE SeqsUpTo(_)
SeqsUpTo(n) ==
    IF n = 0 THEN {<<>>}
    ELSE LET shorter == SeqsUpTo(n - 1)
         IN  shorter \cup {Append(s, b) : s \in {t \in shorter : Len(t) = n - 1}, b \in Bytes}

(* The payloads a caller hands to save_state: every byte string up to one  *)
(* byte more than a zone holds.                                            *)
Payloads == SeqsUpTo(MDAX_ZONE_BYTES + 1)

----------------------------------------------------------------------------
(* Timespec: ordered by (sec, nsec) *)

Timespec(s, n) == [sec |-> s, nsec |-> n]

Cmp(a, b) ==
    IF a.sec < b.sec \/ (a.sec = b.sec /\ a.nsec < b.nsec) THEN "Less"
    ELSE IF a = b THEN "Equal"
    ELSE "Greater"

(* crc32::checksum_ieee over a byte string, at CrcBits bits: a            *)
(* position-weighted sum, 0 for the empty string.                          *)
RECURSIVE WeightedSum(_, _)
WeightedSum(p, i) ==
    IF i > Len(p) THEN 0 ELSE i * p[i] + WeightedSum(p, i + 1)

checksum_ieee(p) == (Len(p) + WeightedSum(p, 1)) % (2 ^ CrcBits)

(* `x as u64` / `x as u32` and `u as i64` / `u as i32`, at CastBits bits   *)
AsUnsigned(x) == x % (2 ^ CastBits)
AsSigned(u) == IF u >= 2 ^ (CastBits - 1) THEN u - 2 ^ CastBits ELSE u

----------------------------------------------------------------------------
(* The Member of part 1 *)

FRO_MAGIC == "froyo-magic"
DevSectors == 8
MemberId == "bd-uuid"
PoolId == "froyo-uuid"

(* struct MDA, without the fixed offset *)
UnusedMda == [last_updated |-> Timespec(0, 0), length |-> 0, crc |-> 0]

Mda(b, s) == IF s = "A" THEN b.mdaa ELSE b.mdab

(* the match on last_updated.cmp in read_mdax: the younger slot, B on a tie *)
YoungerSlot(b) ==
    CASE Cmp(b.mdaa.last_updated, b.mdab.last_updated) = "Less" -> "B"
      [] Cmp(b.mdaa.last_updated, b.mdab.last_updated) = "Greater" -> "A"
      [] OTHER -> "B"

(* the match on last_updated.cmp in write_mdax: the older slot, A on a tie *)
OlderSlot(b) ==
    CASE Cmp(b.mdaa.last_updated, b.mdab.last_updated) = "Less" -> "A"
      [] Cmp(b.mdaa.last_updated, b.mdab.last_updated) = "Greater" -> "B"
      [] OTHER -> "A"

(* The header checksum: crc32 over bytes [4..HEADER_SIZE), at HdrCrcBits   *)
(* bits, as a weighted sum of the fields the header holds.                 *)
StrSum(str) == IF str = "" THEN 0 ELSE 1

HeaderChecksum(h) ==
    ( StrSum(h.magic) + h.sectors + 3 * StrSum(h.id) + 5 * StrSum(h.froyodev_id)
      + 7 * h.mdaa.sec + 11 * h.mdaa.nsec + 13 * h.mdaa.length + 17 * h.mdaa.crc
      + 19 * h.mdab.sec + 23 * h.mdab.nsec + 29 * h.mdab.length + 31 * h.mdab.crc )
    % (2 ^ HdrCrcBits)

(* write_mda_header, the buffer: the fields at their places, the           *)
(* timestamps cast to unsigned, the checksum computed last.                *)
HeaderMda(m) ==
    [sec |-> AsUnsigned(m.last_updated.sec), nsec |-> AsUnsigned(m.last_updated.nsec),
     length |-> m.length, crc |-> m.crc]

HeaderFieldsLengthOfAInB(b) ==
    [magic |-> FRO_MAGIC, sectors |-> b.sectors, id |-> b.id,
     mdaa |-> HeaderMda(b.mdaa),
     mdab |-> [HeaderMda(b.mdab) EXCEPT !.length = b.mdaa.length],
     froyodev_id |-> b.froyodev_id]

HeaderFields(b) ==
    [magic |-> FRO_MAGIC, sectors |-> b.sectors, id |-> b.id,
     mdaa |-> HeaderMda(b.mdaa), mdab |-> HeaderMda(b.mdab),
     froyodev_id |-> b.froyodev_id]

HeaderBuf(b) ==
    LET f == HeaderFields(b)
    IN  [hdr_crc |-> HeaderChecksum(f), fields |-> f]

(* BlockDev::new: read the head copy of the header, check magic and CRC,   *)
(* take sectors from the device size and the rest from the buffer.         *)
(* There is no attempt on the trailer copy.                                *)
DecodeMda(hm) ==
    [last_updated |-> Timespec(AsSigned(hm.sec), AsSigned(hm.nsec)),
     length |-> hm.length, crc |-> hm.crc]

BlockDevNew(d) ==
    LET buf == d.header
    IN  IF buf.fields.magic # FRO_MAGIC
        THEN [res |-> "InvalidInput", bd |-> <<>>]
        ELSE IF HeaderChecksum(buf.fields) # buf.hdr_crc
        THEN [res |-> "InvalidInput", bd |-> <<>>]
        ELSE [res |-> "Ok",
              bd |-> [froyodev_id |-> buf.fields.froyodev_id,
                      id |-> buf.fields.id,
                      sectors |-> d.size,
                      mdaa |-> DecodeMda(buf.fields.mdaa),
                      mdab |-> DecodeMda(buf.fields.mdab)]]

----------------------------------------------------------------------------
(* The MDA payload zones *)

(* f.write_all(&metadata) of which the first k bytes reached the zone *)
Overwrite(zone, p, k) ==
    [i \in 1..Len(zone) |-> IF i <= k THEN p[i] ELSE zone[i]]

(* f.read_exact(&mut buf) with buf of n bytes *)
ReadExact(zone, n) == [i \in 1..n |-> zone[i]]

(* read_mdax: the younger slot by the in-memory descriptors, an error when *)
(* its timestamp is zero, the head copy of its payload, its CRC checked.   *)
(* There is no attempt on the trailer copy.                                *)
ReadMdax(b, d) ==
    LET slot == YoungerSlot(b)
        younger_mda == Mda(b, slot)
        buf == ReadExact(d.mdax[slot], younger_mda.length)
    IN  IF younger_mda.last_updated = Timespec(0, 0)
        THEN [res |-> "InvalidInput", buf |-> <<>>]
        ELSE IF younger_mda.crc # checksum_ieee(buf)
        THEN [res |-> "InvalidInput", buf |-> <<>>]
        ELSE [res |-> "Ok", buf |-> buf]

(* Where an I/O step of save_state can fail or the process can stop.       *)
(* `at` names the step that did not complete, k the bytes a failing        *)
(* write_all had written before it failed.                                 *)
MdaxSteps == {"open", "write_head", "write_trailer", "flush"}
HeaderSteps == {"hdr_open", "hdr_write_head", "hdr_write_trailer", "hdr_flush"}

FailPoints(p) ==
    {[at |-> a, k |-> 0] : a \in {"open", "flush"} \cup HeaderSteps}
    \cup {[at |-> a, k |-> n] : a \in {"write_head", "write_trailer"}, n \in 0..(Len(p) - 1)}

NoFailure == [at |-> "none", k |-> 0]

(* write_mdax: pick the older slot, reject an oversized payload, set the   *)
(* in-memory descriptor, then write the payload to the head zone and to    *)
(* its trailer copy, and flush.                                            *)
WithOlderMda(b, slot, time, metadata) ==
    LET m == [last_updated |-> time, length |-> Len(metadata),
              crc |-> checksum_ieee(metadata)]
    IN  IF slot = "A" THEN [b EXCEPT !.mdaa = m] ELSE [b EXCEPT !.mdab = m]

WriteMdaxTooLarge(b, d, time, metadata, fp) ==
    [res |-> "InvalidInput", bd |-> b, disk |-> d, slot |-> OlderSlot(b)]

WriteMdaxIo(b, d, time, metadata, fp) ==
    LET slot == OlderSlot(b)
        b2 == WithOlderMda(b, slot, time, metadata)
        n == Len(metadata)
        head_k == CASE fp.at = "open" -> 0
                    [] fp.at = "write_head" -> fp.k
                    [] OTHER -> n
        trailer_k == CASE fp.at \in {"open", "write_head"} -> 0
                       [] fp.at = "write_trailer" -> fp.k
                       [] OTHER -> n
        d2 == [d EXCEPT !.mdax[slot] = Overwrite(@, metadata, head_k),
                        !.mdax_trailer[slot] = Overwrite(@, metadata, trailer_k)]
    IN  [res |-> IF fp.at \in MdaxSteps THEN "IoError" ELSE "Ok",
         bd |-> b2, disk |-> d2, slot |-> slot]

WriteMdaxSizeCheckLate(b, d, time, metadata, fp) ==
    IF Len(metadata) > MDAX_ZONE_BYTES
    THEN [res |-> "InvalidInput",
          bd |-> WithOlderMda(b, OlderSlot(b), time, metadata),
          disk |-> d, slot |-> OlderSlot(b)]
    ELSE WriteMdaxIo(b, d, time, metadata, fp)

WriteMdax(b, d, time, metadata, fp) ==
    IF Len(metadata) > MDAX_ZONE_BYTES
    THEN WriteMdaxTooLarge(b, d, time, metadata, fp)
    ELSE WriteMdaxIo(b, d, time, metadata, fp)

(* write_mda_header: build the buffer from the in-memory BlockDev, write   *)
(* it at offset 0 and at the start of the trailer zone, flush.             *)
WriteMdaHeader(b, d, fp) ==
    LET buf == HeaderBuf(b)
        head_done == fp.at \notin {"hdr_open", "hdr_write_head"}
        trailer_done == head_done /\ fp.at # "hdr_write_trailer"
    IN  [res |-> IF fp.at \in HeaderSteps THEN "IoError" ELSE "Ok",
         disk |-> [d EXCEPT !.header = IF head_done THEN buf ELSE @,
                            !.header_trailer = IF trailer_done THEN buf ELSE @]]

(* BlockDev::save_state: write_mdax, then write_mda_header *)
SaveState(b, d, time, metadata, fp) ==
    LET w == WriteMdax(b, d, time, metadata, fp)
    IN  IF w.res # "Ok" THEN w
        ELSE LET h == WriteMdaHeader(w.bd, w.disk, fp)
             IN  [res |-> h.res, bd |-> w.bd, disk |-> h.disk, slot |-> w.slot]

----------------------------------------------------------------------------
(* The state after BlockDev::initialize on a zeroed device, and the        *)
(* operations on the Member.                                               *)

EmptyZone == [i \in 1..MDAX_ZONE_BYTES |-> 0]

InitializedBlockDev ==
    [froyodev_id |-> PoolId, id |-> MemberId, sectors |-> DevSectors,
     mdaa |-> UnusedMda, mdab |-> UnusedMda]

InitializedDisk ==
    [size |-> DevSectors,
     header |-> HeaderBuf(InitializedBlockDev),
     header_trailer |-> HeaderBuf(InitializedBlockDev),
     mdax |-> [s \in Slots |-> EmptyZone],
     mdax_trailer |-> [s \in Slots |-> EmptyZone]]

Op(op, res, at) == [op |-> op, res |-> res, at |-> at]

NoPool == <<>>

NotCalled ==
    [res |-> "NotCalled", areas |-> <<>>, pushed |-> {}, zones |-> 0,
     common_free_sectors |-> 0, region_sectors |-> 0, region_count |-> 0,
     mdata_sectors |-> 0, data_sectors |-> 0, live |-> 0, saved |-> <<>>]

(* no zone sized yet *)
NotSized ==
    [op |-> "none", common_free_sectors |-> 0, region_sectors |-> 0, region_count |-> 0,
     mdata_sectors |-> 0]

(* what get_some_space(size) returned last, and how many of the returned   *)
(* segments its caller has made RaidSegments of                            *)
SpaceResult(size, obtained, segs) ==
    [called |-> TRUE, size |-> size, obtained |-> obtained, segs |-> segs, claimed |-> 0]

NoSpace == [called |-> FALSE, size |-> 0, obtained |-> 0, segs |-> <<>>, claimed |-> 0]

(* what RaidDev::create gave for the member vector devs: the RaidDev when  *)
(* res is "Ok" (its length, stripe and region sizes, its members devs and  *)
(* its used segments), otherwise how the call ended; got is the last       *)
(* get_some_space on it                                                    *)
RaidResult(res, devs, length, stripe, region) ==
    [res |-> res, devs |-> devs, length |-> length, stripe_sectors |-> stripe,
     region_sectors |-> region, used |-> <<>>, got |-> NoSpace]

(* no thin pool operation yet, no pool operation yet *)
NoThin == [op |-> "none"]
NoFroyo == [op |-> "none"]

(* no RaidDev built yet *)
NoRaid == RaidResult("none", <<>>, 0, 0, 0)

InitMda ==
    /\ bd = InitializedBlockDev
    /\ disk = InitializedDisk
    /\ last = Op("initialize", "Ok", "none")
    /\ lastOkSlot = "none"
    /\ now = Timespec(0, 0)
    /\ calls = 0
    /\ pool = NoPool
    /\ carve = NotCalled
    /\ sizing = NotSized
    /\ thin = NoThin
    /\ froyo = NoFroyo
    /\ raid = NoRaid

(* metadata.len() > MDAX_ZONE_SECTORS * SECTOR_SIZE *)
TooLarge(metadata) == Len(metadata) > MDAX_ZONE_BYTES

(* BlockDev::save_state(time, metadata) returning to its caller, with Ok   *)
(* or with the error of the step `fp` names; last.at tells whether the     *)
(* payload was longer than an MDA zone holds.                               *)
SaveStateCall(time, metadata, fp) ==
    LET r == SaveState(bd, disk, time, metadata, fp)
    IN  /\ calls < MaxCalls
        /\ calls' = calls + 1
        /\ bd' = r.bd
        /\ disk' = r.disk
        /\ last' = Op("save_state", r.res, IF TooLarge(metadata) THEN "oversized" ELSE "none")
        /\ lastOkSlot' = IF r.res = "Ok" THEN r.slot ELSE lastOkSlot
        /\ UNCHANGED <<poolVars, raidVars, topVars>>

(* The process stops inside save_state at the step `fp` names; the Member  *)
(* is then re-read from the device by BlockDev::new.                       *)
SaveStateCrash(time, metadata, fp) ==
    LET r == SaveState(bd, disk, time, metadata, fp)
        reread == BlockDevNew(r.disk)
    IN  /\ calls < MaxCalls
        /\ calls' = calls + 1
        /\ Len(metadata) <= MDAX_ZONE_BYTES
        /\ reread.res = "Ok"
        /\ bd' = reread.bd
        /\ disk' = r.disk
        /\ last' = Op("crash", "Crash", fp.at)
        /\ UNCHANGED lastOkSlot
        /\ UNCHANGED <<poolVars, raidVars, topVars>>

(* read_mdax on the in-memory BlockDev *)
ReadMdaxCall ==
    LET r == ReadMdax(bd, disk)
    IN  /\ last' = Op("read_mdax", r.res, "none")
        /\ UNCHANGED <<bd, disk, lastOkSlot, now, calls>>
        /\ UNCHANGED <<poolVars, raidVars, topVars>>

(* BlockDev::new on the device (discovery): the in-memory BlockDev is      *)
(* replaced by what the header holds, or the Member is rejected.           *)
BlockDevNewCall ==
    LET r == BlockDevNew(disk)
    IN  /\ bd' = IF r.res = "Ok" THEN r.bd ELSE bd
        /\ last' = Op("new", r.res, "none")
        /\ UNCHANGED <<disk, lastOkSlot, now, calls>>
        /\ UNCHANGED <<poolVars, raidVars, topVars>>

(* The caller takes any timestamp after the epoch. *)
BlockDevSaveState ==
    \E time \in Times, metadata \in Payloads :
        \E fp \in FailPoints(metadata) \cup {NoFailure} :
            SaveStateCall(time, metadata, fp) /\ UNCHANGED now

BlockDevCrash ==
    \E time \in Times, metadata \in Payloads :
        \E fp \in FailPoints(metadata) :
            SaveStateCrash(time, metadata, fp) /\ UNCHANGED now

Next ==
    \/ BlockDevSaveState
    \/ BlockDevCrash
    \/ ReadMdaxCall
    \/ BlockDevNewCall

Spec == InitMda /\ [][Next]_vars

(* Every save_state call completes: no I/O step fails. *)
BlockDevSaveStateOk ==
    \E time \in Times, metadata \in Payloads :
        SaveStateCall(time, metadata, NoFailure) /\ UNCHANGED now

NextOk ==
    \/ BlockDevSaveStateOk
    \/ ReadMdaxCall
    \/ BlockDevNewCall

SpecOk == InitMda /\ [][NextOk]_vars

(* The caller takes its timestamps from a clock that never runs backwards  *)
(* and never repeats: each one is later than every earlier one.            *)
LaterThanNow(time) == Cmp(now, time) = "Less"

ClockedSaveState ==
    \E time \in Times, metadata \in Payloads :
        \E fp \in FailPoints(metadata) \cup {NoFailure} :
            LaterThanNow(time) /\ SaveStateCall(time, metadata, fp) /\ now' = time

ClockedCrash ==
    \E time \in Times, metadata \in Payloads :
        \E fp \in FailPoints(metadata) :
            LaterThanNow(time) /\ SaveStateCrash(time, metadata, fp) /\ now' = time

NextMono ==
    \/ ClockedSaveState
    \/ ClockedCrash
    \/ ReadMdaxCall
    \/ BlockDevNewCall

SpecMono == InitMda /\ [][NextMono]_vars

----------------------------------------------------------------------------
(* Damage to the device outside the program: one bit of the stored header  *)
(* checksum of one header copy flips, or one byte of one copy of the       *)
(* younger slot's payload changes.                                         *)

FlipLowBit(x) == IF x % 2 = 0 THEN x + 1 ELSE x - 1

HeaderValid(buf) ==
    buf.fields.magic = FRO_MAGIC /\ HeaderChecksum(buf.fields) = buf.hdr_crc

CorruptHeader ==
    /\ \/ /\ HeaderValid(disk.header)
          /\ disk' = [disk EXCEPT !.header.hdr_crc = FlipLowBit(@)]
       \/ /\ HeaderValid(disk.header_trailer)
          /\ disk' = [disk EXCEPT !.header_trailer.hdr_crc = FlipLowBit(@)]
    /\ last' = Op("corrupt", "Ok", "none")
    /\ UNCHANGED <<bd, lastOkSlot, now, calls>>
    /\ UNCHANGED <<poolVars, raidVars, topVars>>

CorruptPayload ==
    /\ Mda(bd, YoungerSlot(bd)).length > 0
    /\ \E b \in Bytes :
          \/ /\ disk.mdax[YoungerSlot(bd)][1] # b
             /\ disk' = [disk EXCEPT !.mdax[YoungerSlot(bd)][1] = b]
          \/ /\ disk.mdax_trailer[YoungerSlot(bd)][1] # b
             /\ disk' = [disk EXCEPT !.mdax_trailer[YoungerSlot(bd)][1] = b]
    /\ last' = Op("corrupt", "Ok", "none")
    /\ UNCHANGED <<bd, lastOkSlot, now, calls>>
    /\ UNCHANGED <<poolVars, raidVars, topVars>>

(* save_state calls that complete, damage to the device, and re-reading *)
ClockedSaveStateOk ==
    \E time \in Times, metadata \in Payloads :
        LaterThanNow(time) /\ SaveStateCall(time, metadata, NoFailure) /\ now' = time

NextCorrupt ==
    \/ ClockedSaveStateOk
    \/ CorruptHeader
    \/ CorruptPayload
    \/ ReadMdaxCall
    \/ BlockDevNewCall

SpecCorrupt == InitMda /\ [][NextCorrupt]_vars

----------------------------------------------------------------------------
(* Part 2: the space map of a Member and create_redundant_zone.            *)
(* Sizes are in sectors.  The constants of consts.rs are scaled down,      *)
(* keeping their order: a data zone is larger than the write-intent bitmap *)
(* plus a stripe, and a device holds both MDA zones and a data zone.       *)

SECTOR_SIZE == 512
MDA_ZONE_SECTORS == 32
STRIPE_SECTORS == 16
MIN_DATA_ZONE_SECTORS == 128
DEFAULT_REGION_SECTORS == 8
MAX_REGIONS == 16
MIN_DEV_SECTORS == MIN_DATA_ZONE_SECTORS + 2 * MDA_ZONE_SECTORS
FROYO_REDUNDANCY == 1
BITMAP_HEADER_BYTES == 8192
REGIONS_PER_BYTE == 8

MaxMembers == 3        \* a pool has 2..MaxMembers block devices
SizeStep == 72         \* device sizes are MIN_DEV_SECTORS + k * SizeStep
MaxSizeSteps == 4      \* with k in 0..MaxSizeSteps

DevSizes == {MIN_DEV_SECTORS + k * SizeStep : k \in 0..MaxSizeSteps}

(* Ord on (SectorOffset, Sectors) tuples *)
AreaLess(a, b) == a[1] < b[1] \/ (a[1] = b[1] /\ a[2] < b[2])

(* used.sort() *)
InsertSorted(x, sorted) ==
    LET before == {i \in 1..Len(sorted) : ~AreaLess(x, sorted[i])}
        k == Cardinality(before)
    IN  SubSeq(sorted, 1, k) \o <<x>> \o SubSeq(sorted, k + 1, Len(sorted))

RECURSIVE SortAreas(_)
SortAreas(areas) ==
    IF areas = <<>> THEN <<>>
    ELSE InsertSorted(Head(areas), SortAreas(Tail(areas)))

SegArea(seg) == <<seg.start, seg.length>>

RECURSIVE SegAreas(_)
SegAreas(segs) ==
    IF segs = <<>> THEN <<>> ELSE <<SegArea(Head(segs))>> \o SegAreas(Tail(segs))

RECURSIVE LinearDevAreas(_)
LinearDevAreas(devs) ==
    IF devs = <<>> THEN <<>>
    ELSE SegAreas(Head(devs).meta_segments) \o SegAreas(Head(devs).data_segments)
         \o LinearDevAreas(Tail(devs))

(* both MDA zones and every segment of every LinearDev child, in the order *)
(* they are pushed                                                         *)
UsedAreasUnsorted(b) ==
    <<<<0, MDA_ZONE_SECTORS>>, <<b.sectors - MDA_ZONE_SECTORS, MDA_ZONE_SECTORS>>>>
    \o LinearDevAreas(b.linear_devs)

(* BlockDev::used_areas: both MDA zones and every segment of every         *)
(* LinearDev child, sorted.                                                *)
UsedAreas(b) ==
    SortAreas(<<<<0, MDA_ZONE_SECTORS>>,
                <<b.sectors - MDA_ZONE_SECTORS, MDA_ZONE_SECTORS>>>>
              \o LinearDevAreas(b.linear_devs))

(* the fold of free_areas: a gap is pushed when the previous end is below  *)
(* the next start.                                                         *)
RECURSIVE FreeFold(_, _, _)
FreeFold(used, i, prev_end) ==
    IF i > Len(used) THEN <<>>
    ELSE LET start == used[i][1]
             len == used[i][2]
         IN  (IF prev_end < start THEN <<<<prev_end, start - prev_end>>>> ELSE <<>>)
             \o FreeFold(used, i + 1, start + len)

(* BlockDev::free_areas: the fold over used_areas and an end marker *)
FreeAreas(b) == FreeFold(UsedAreas(b) \o <<<<b.sectors, 0>>>>, 1, 0)

(* BlockDev::largest_free_area: max_by_key on the length, which returns    *)
(* the last of several maximal elements; None when there is no free area.  *)
None == [some |-> FALSE, area |-> <<0, 0>>]
Some(a) == [some |-> TRUE, area |-> a]

(* max_by_key, had it returned the first maximal element *)
MaxByLenFirst(free) ==
    LET longest == {i \in 1..Len(free) : \A j \in 1..Len(free) : free[j][2] <= free[i][2]}
    IN  IF free = <<>> THEN None
        ELSE Some(free[CHOOSE i \in longest : \A j \in longest : i <= j])

MaxByLen(free) ==
    LET longest == {i \in 1..Len(free) : \A j \in 1..Len(free) : free[j][2] <= free[i][2]}
    IN  IF free = <<>> THEN None
        ELSE Some(free[CHOOSE i \in longest : \A j \in longest : j <= i])

LargestFreeArea(b) == MaxByLen(FreeAreas(b))

----------------------------------------------------------------------------
(* RaidDev::create.  A member is Present (a LinearDev, with the data       *)
(* length its data segments sum to) or Absent.                             *)

MinOf(S) == CHOOSE x \in S : \A y \in S : x <= y

PresentMember(data_length) == [present |-> TRUE, data_length |-> data_length]
AbsentMember(data_length) == [present |-> FALSE, data_length |-> data_length]

PresentDevs(devs) == {i \in DOMAIN devs : devs[i].present}

(* target_length, had it counted every member position *)
TargetLengthAllMembers(first_present_dev_len, n) == first_present_dev_len * n

TargetLength(first_present_dev_len, n) == first_present_dev_len * (n - FROYO_REDUNDANCY)

TooManyMissing(present_devs, n) == present_devs < n - FROYO_REDUNDANCY

(* devs.len() - FROYO_REDUNDANCY is a usize subtraction: below zero it     *)
(* panics in a build with overflow checks (checked) and wraps to a number  *)
(* no count of present devs reaches in a build without.  dm_fails: the     *)
(* device mapper refuses the raid table.                                   *)
RaidDevCreate(devs, stripe, region, checked, dm_fails) ==
    IF Len(devs) < FROYO_REDUNDANCY
    THEN RaidResult(IF checked THEN "Panic" ELSE "InvalidInput", devs, 0, stripe, region)
    ELSE IF TooManyMissing(Cardinality(PresentDevs(devs)), Len(devs))
    THEN RaidResult("InvalidInput", devs, 0, stripe, region)
    ELSE IF PresentDevs(devs) = {}
    THEN RaidResult("Panic", devs, 0, stripe, region)
    ELSE IF \E i \in PresentDevs(devs) :
               devs[i].data_length # devs[MinOf(PresentDevs(devs))].data_length
    THEN RaidResult("InvalidInput", devs, 0, stripe, region)
    ELSE IF dm_fails
    THEN RaidResult("Err", devs, 0, stripe, region)
    ELSE RaidResult("Ok", devs,
                    TargetLength(devs[MinOf(PresentDevs(devs))].data_length, Len(devs)),
                    stripe, region)

----------------------------------------------------------------------------
(* Froyo::create_redundant_zone *)

(* util::align_to: round up to a multiple *)
align_to(x, a) == ((x + a - 1) \div a) * a

(* u64::next_power_of_two *)
RECURSIVE PowerOfTwoFrom(_, _)
PowerOfTwoFrom(x, pw) == IF pw >= x THEN pw ELSE PowerOfTwoFrom(x, 2 * pw)

next_power_of_two(x) == PowerOfTwoFrom(x, 1)

(* the while loop: double from the default until common / region_sectors   *)
(* is at most MAX_REGIONS                                                  *)
RECURSIVE RegionSectorsFrom(_, _)
RegionSectorsFrom(common_free_sectors, region_sectors) ==
    IF common_free_sectors \div region_sectors > MAX_REGIONS
    THEN RegionSectorsFrom(common_free_sectors, region_sectors * 2)
    ELSE region_sectors

RegionSectors(common_free_sectors) ==
    RegionSectorsFrom(common_free_sectors, DEFAULT_REGION_SECTORS)

(* common / region_sectors plus the partial region *)
RegionCount(common_free_sectors, region_sectors) ==
    common_free_sectors \div region_sectors
    + (IF common_free_sectors % region_sectors = 0 THEN 0 ELSE 1)

(* one bit of the write-intent bitmap per region *)
MdataSectors(region_count) ==
    next_power_of_two(align_to(BITMAP_HEADER_BYTES + region_count \div REGIONS_PER_BYTE,
                               SECTOR_SIZE))
    \div SECTOR_SIZE

(* (common - mdata) & !(STRIPE_SECTORS - 1), stripe a power of two *)
DataSectors(common_free_sectors, mdata_sectors) ==
    LET rest == common_free_sectors - mdata_sectors
    IN  rest - (rest % STRIPE_SECTORS)

(* the metadata range starts the free area, the data range follows it *)
MdataSectorStart(sector_start) == sector_start

DataSectorStartAtAreaStart(sector_start, mdata_sectors) == sector_start

DataSectorStart(sector_start, mdata_sectors) == sector_start + mdata_sectors

NewLinearDev(area, mdata_sectors, data_sectors) ==
    [meta_segments |-> <<[start |-> MdataSectorStart(area[1]), length |-> mdata_sectors]>>,
     data_segments |-> <<[start |-> DataSectorStart(area[1], mdata_sectors),
                          length |-> data_sectors]>>]

(* bd_areas, had the filter dropped the areas of exactly the minimum *)
BdAreasStrict(largest) ==
    {i \in DOMAIN largest :
        largest[i].some /\ largest[i].area[2] > MIN_DATA_ZONE_SECTORS}

(* bd_areas: the block devices, in the order of their ids, whose largest   *)
(* free area is at least MIN_DATA_ZONE_SECTORS.  largest[i] is what        *)
(* largest_free_area returned for block device i.                          *)
BdAreas(largest) ==
    {i \in DOMAIN largest :
        largest[i].some /\ largest[i].area[2] >= MIN_DATA_ZONE_SECTORS}

(* position of block device i among the chosen ones: enumerate() *)
Num(chosen, i) == Cardinality({j \in chosen : j < i})

(* The device mapper devices the call leaves live: the meta and the data   *)
(* device of every LinearDev it pushed and the raid device when it was    *)
(* set up.  Nothing in the call, nor in LinearDev or RaidDev, removes a    *)
(* device.                                                                 *)
LiveAfterZone(linear_devs, raid_set_up) ==
    2 * linear_devs + (IF raid_set_up THEN 1 ELSE 0)

(* The body of create_redundant_zone once bd_areas is collected.           *)
(* fail = 0: every device mapper call succeeds; fail = k in 1..n: creating *)
(* (or clearing) the LinearDev of the k-th chosen block device fails;      *)
(* fail = n + 1: RaidDev::create fails.  A LinearDev is pushed onto its    *)
(* block device as soon as it is created.                                  *)
ZoneFromAreas(p, largest, chosen, fail) ==
    IF Cardinality(chosen) < 2
    THEN [res |-> "None", pool |-> p, areas |-> largest, chosen |-> chosen, pushed |-> {},
          common_free_sectors |-> 0, region_sectors |-> 0, region_count |-> 0,
          mdata_sectors |-> 0, data_sectors |-> 0, raid |-> NoRaid, live |-> 0]
    ELSE
    LET common_free_sectors == MinOf({largest[i].area[2] : i \in chosen})
        region_sectors == RegionSectors(common_free_sectors)
        region_count == RegionCount(common_free_sectors, region_sectors)
        mdata_sectors == MdataSectors(region_count)
        data_sectors == DataSectors(common_free_sectors, mdata_sectors)
        pushed == {i \in chosen : fail = 0 \/ Num(chosen, i) + 1 < fail}
    IN  [res |-> IF fail = 0 THEN "Some" ELSE "Err",
         pool |-> [i \in DOMAIN p |->
                      IF i \in pushed
                      THEN [p[i] EXCEPT !.linear_devs =
                               Append(@, NewLinearDev(largest[i].area, mdata_sectors,
                                                      data_sectors))]
                      ELSE p[i]],
         areas |-> largest, chosen |-> chosen, pushed |-> pushed,
         common_free_sectors |-> common_free_sectors,
         region_sectors |-> region_sectors, region_count |-> region_count,
         mdata_sectors |-> mdata_sectors, data_sectors |-> data_sectors,
         raid |-> IF fail = 0 \/ fail = Cardinality(chosen) + 1
                  THEN RaidDevCreate([k \in 1..Cardinality(chosen) |->
                                         PresentMember(data_sectors)],
                                     STRIPE_SECTORS, region_sectors, TRUE, fail # 0)
                  ELSE NoRaid,
         live |-> LiveAfterZone(Cardinality(pushed), fail = 0)]

ZoneFromLargest(p, largest, fail) == ZoneFromAreas(p, largest, BdAreas(largest), fail)

CreateRedundantZone(p, fail) ==
    ZoneFromLargest(p, [i \in DOMAIN p |-> LargestFreeArea(p[i])], fail)

(* The block devices of a pool right after BlockDev::initialize: at least  *)
(* MIN_DEV_SIZE, no LinearDev child.                                       *)
InitializedMember(sectors) == [sectors |-> sectors, linear_devs |-> <<>>]

InitPool ==
    /\ bd = InitializedBlockDev
    /\ disk = InitializedDisk
    /\ last = Op("initialize", "Ok", "none")
    /\ lastOkSlot = "none"
    /\ now = Timespec(0, 0)
    /\ calls = 0
    /\ \E n \in 2..MaxMembers :
          pool \in [1..n -> {InitializedMember(sz) : sz \in DevSizes}]
    /\ carve = NotCalled
    /\ sizing = NotSized
    /\ thin = NoThin
    /\ froyo = NoFroyo
    /\ raid = NoRaid

(* the elements of a set of block device ids in the order of the ids *)
SeqOf(S) == [k \in 1..Cardinality(S) |-> CHOOSE i \in S : Num(S, i) = k - 1]

(* RaidDev::to_save: the sizes, the length, and for every member the       *)
(* LinearDevSave, of which the model keeps the parent and the data length  *)
RaidDevToSave(rd, parents) ==
    [stripe_sectors |-> rd.stripe_sectors, region_sectors |-> rd.region_sectors,
     length |-> rd.length,
     members |-> [k \in DOMAIN rd.devs |->
                     [parent |-> parents[k], data_length |-> rd.devs[k].data_length]]]

(* create_redundant_zone returns r to the loop of Froyo::create *)
Returns(r, fail) ==
    /\ fail <= Cardinality(r.chosen) + 1
    /\ (r.res = "None" => fail = 0)
    /\ pool' = r.pool
    /\ carve' = [res |-> r.res, areas |-> r.areas, pushed |-> r.pushed,
                 zones |-> carve.zones + (IF r.res = "Some" THEN 1 ELSE 0),
                 common_free_sectors |-> r.common_free_sectors,
                 region_sectors |-> r.region_sectors,
                 region_count |-> r.region_count,
                 mdata_sectors |-> r.mdata_sectors,
                 data_sectors |-> r.data_sectors,
                 live |-> carve.live + r.live,
                 saved |-> IF r.res = "Some"
                           THEN Append(carve.saved, RaidDevToSave(r.raid, SeqOf(r.chosen)))
                           ELSE carve.saved]
    /\ raid' = IF r.raid.res = "none" THEN raid ELSE r.raid

(* One turn of the loop of Froyo::create: it goes on while zones are made, *)
(* stops at None, and returns at the first error.                          *)
CreateRedundantZoneCall ==
    /\ carve.res \in {"NotCalled", "Some"}
    /\ \E fail \in 0..(MaxMembers + 1) : Returns(CreateRedundantZone(pool, fail), fail)
    /\ UNCHANGED <<topVars, mdaVars, sizing>>

NextPool == CreateRedundantZoneCall

SpecPool == InitPool /\ [][NextPool]_vars

(* The loop of Froyo::create while the device mapper does what it is asked: *)
(* it calls create_redundant_zone again after every Some.                   *)
CreateRedundantZoneOk ==
    /\ carve.res \in {"NotCalled", "Some"}
    /\ \E r \in {CreateRedundantZone(pool, 0)} : Returns(r, 0)
    /\ UNCHANGED <<topVars, mdaVars, sizing>>

NextCarve == CreateRedundantZoneOk

(* create_redundant_zone always returns, so a turn of the loop is enabled   *)
(* exactly while the loop condition holds                                  *)
LoopStopped == carve.res \notin {"NotCalled", "Some"}

(* weak fairness of the loop, WF_vars(NextCarve), with its ENABLED written *)
(* as the loop condition: the running program takes the next turn          *)
LoopIsFair == []<>LoopStopped \/ []<><<NextCarve>>_vars

SpecCarve == InitPool /\ [][NextCarve]_vars /\ LoopIsFair

----------------------------------------------------------------------------
(* RaidDev::create on the member vectors Froyo::from_save can hand it: any *)
(* number of positions, each Present or Absent, of any data length.        *)

MaxRaidMembers == 3    \* member positions of a saved RaidDev
MaxDataLen == 3        \* data length of a saved LinearDev

RaidMembers ==
    {PresentMember(d) : d \in 1..MaxDataLen} \cup {AbsentMember(d) : d \in 1..MaxDataLen}

InitRaidCreate ==
    /\ bd = InitializedBlockDev
    /\ disk = InitializedDisk
    /\ last = Op("initialize", "Ok", "none")
    /\ lastOkSlot = "none"
    /\ now = Timespec(0, 0)
    /\ calls = 0
    /\ pool = NoPool
    /\ carve = NotCalled
    /\ sizing = NotSized
    /\ thin = NoThin
    /\ froyo = NoFroyo
    /\ raid = NoRaid

(* A run that restores a pool creates no zone: pool stays NoPool.  The     *)
(* loop of from_save goes on to the next saved RaidDev after an Ok and     *)
(* returns at the first error.                                             *)
RaidDevCreateCall ==
    /\ pool = NoPool
    /\ raid.res \in {"none", "Ok"}
    /\ \E n \in 0..MaxRaidMembers : \E devs \in [1..n -> RaidMembers] :
          \E checked \in BOOLEAN : \E dm_fails \in BOOLEAN :
             raid' = RaidDevCreate(devs, STRIPE_SECTORS, DEFAULT_REGION_SECTORS,
                                   checked, dm_fails)
    /\ UNCHANGED <<topVars, mdaVars, poolVars, sizing>>

NextRaidCreate == RaidDevCreateCall

SpecRaidCreate == InitRaidCreate /\ [][NextRaidCreate]_vars

(* the RaidDevs of both routes: carved by Froyo::create, restored by       *)
(* Froyo::from_save                                                        *)
InitRaidDevs == InitPool \/ InitRaidCreate

NextRaidDevs == CreateRedundantZoneCall \/ RaidDevCreateCall

SpecRaidDevs == InitRaidDevs /\ [][NextRaidDevs]_vars

----------------------------------------------------------------------------
(* The space map of a RaidDev *)

MaxRequest == 7        \* sectors asked of get_some_space
MaxSavedSegs == 2      \* RaidSegments the saved metadata holds for one RaidDev

(* RaidDev::used_areas: (start, length) of the used RaidSegments, in the   *)
(* order they were pushed                                                  *)
RaidUsedAreas(rd) == SegAreas(rd.used)

(* the used areas, had free_areas not sorted them *)
RaidUsedNotSorted(rd) == RaidUsedAreas(rd)

(* used_vec.sort() *)
RaidSortedUsed(rd) == SortAreas(RaidUsedAreas(rd))

(* free_areas, had the end of the RaidDev not been marked *)
RaidFreeAreasNoEndMarker(rd) == FreeFold(RaidSortedUsed(rd), 1, 0)

(* RaidDev::free_areas: the same fold as BlockDev::free_areas, over the    *)
(* sorted used areas and the marker (length, 0)                            *)
RaidFreeAreas(rd) == FreeFold(RaidSortedUsed(rd) \o <<<<rd.length, 0>>>>, 1, 0)

(* to_use, had it taken every free run whole *)
ToUseWholeRun(needed, len) == len

ToUse(needed, len) == IF needed <= len THEN needed ELSE len

(* the loop of get_some_space over free_areas() *)
RECURSIVE SomeSpaceLoop(_, _, _, _)
SomeSpaceLoop(free, i, needed, segs) ==
    IF i > Len(free) \/ needed = 0
    THEN [needed |-> needed, segs |-> segs]
    ELSE SomeSpaceLoop(free, i + 1, needed - ToUse(needed, free[i][2]),
                       Append(segs, <<free[i][1], ToUse(needed, free[i][2])>>))

SpaceFromLoop(size, r) == SpaceResult(size, size - r.needed, r.segs)

(* RaidDev::get_some_space *)
GetSomeSpace(rd, size) == SpaceFromLoop(size, SomeSpaceLoop(RaidFreeAreas(rd), 1, size, <<>>))

(* RaidSegment::new: the segment is pushed onto its parent's used *)
RaidSegmentNew(rd, start, length) ==
    [rd EXCEPT !.used = Append(@, [start |-> start, length |-> length])]

(* a saved RaidSegment lies in its RaidDev and beside the other saved ones *)
WellFormedSegment(rd, start, length) ==
    /\ length > 0
    /\ start + length <= rd.length
    /\ \A k \in 1..Len(rd.used) :
          \/ start + length <= rd.used[k].start
          \/ rd.used[k].start + rd.used[k].length <= start

InitAlloc ==
    /\ bd = InitializedBlockDev
    /\ disk = InitializedDisk
    /\ last = Op("initialize", "Ok", "none")
    /\ lastOkSlot = "none"
    /\ now = Timespec(0, 0)
    /\ calls = 0
    /\ pool = NoPool
    /\ carve = NotCalled
    /\ sizing = NotSized
    /\ thin = NoThin
    /\ froyo = NoFroyo
    /\ \E n \in 2..MaxRaidMembers : \E d \in 1..MaxDataLen :
          raid = RaidDevCreate([k \in 1..n |-> PresentMember(d)], STRIPE_SECTORS,
                               DEFAULT_REGION_SECTORS, TRUE, FALSE)

(* from_save: a RaidSegment for every saved segment of the thin pool's     *)
(* meta and data devices, before anything is allocated                     *)
RestoreSegment ==
    /\ ~raid.got.called
    /\ Len(raid.used) < MaxSavedSegs
    /\ \E start \in 0..raid.length : \E length \in 1..raid.length :
          /\ WellFormedSegment(raid, start, length)
          /\ raid' = RaidSegmentNew(raid, start, length)
    /\ UNCHANGED <<topVars, mdaVars, poolVars, sizing>>

(* a consumer has made RaidSegments of all that get_some_space gave it *)
AllClaimed == raid.got.claimed = Len(raid.got.segs)

(* a consumer asks the RaidDev for size sectors *)
GetSomeSpaceCall ==
    /\ AllClaimed
    /\ \E size \in 0..MaxRequest : raid' = [raid EXCEPT !.got = GetSomeSpace(raid, size)]
    /\ UNCHANGED <<topVars, mdaVars, poolVars, sizing>>

(* the consumer makes a RaidSegment of the next segment it was given *)
ClaimSegment ==
    /\ ~AllClaimed
    /\ raid' = [RaidSegmentNew(raid, raid.got.segs[raid.got.claimed + 1][1],
                                raid.got.segs[raid.got.claimed + 1][2])
                   EXCEPT !.got.claimed = @ + 1]
    /\ UNCHANGED <<topVars, mdaVars, poolVars, sizing>>

NextAlloc == RestoreSegment \/ GetSomeSpaceCall \/ ClaimSegment

SpecAlloc == InitAlloc /\ [][NextAlloc]_vars

----------------------------------------------------------------------------
(* Discovery: Froyo::from_save gives a Member read by BlockDev::new the    *)
(* LinearDevs its saved metadata describes, with the segments saved there. *)

MaxSavedDevs == 2      \* LinearDevs the saved metadata holds for one Member
MaxSavedStripes == 2   \* a saved segment is 1..MaxSavedStripes stripes long
MaxSavedSteps == 0     \* the Member is MinDevSectors + 0..MaxSavedSteps size steps

SavedGrain == STRIPE_SECTORS
SavedLens == {SavedGrain * k : k \in 1..MaxSavedStripes}
SavedSizes == {MIN_DEV_SECTORS + SizeStep * k : k \in 0..MaxSavedSteps}

(* LinearDevSave: one meta and one data segment, anywhere in the data area *)
SavedLinearDevs(sectors) ==
    {[meta_segments |-> <<[start |-> ms, length |-> ml]>>,
      data_segments |-> <<[start |-> ds, length |-> dl]>>] :
        ms \in {SavedGrain * k : k \in 0..(sectors \div SavedGrain)},
        ds \in {SavedGrain * k : k \in 0..(sectors \div SavedGrain)},
        ml \in SavedLens, dl \in SavedLens}

(* what to_save wrote for a Member whose segments were in its data area    *)
(* and disjoint                                                            *)
WellFormedSave(b, sld) ==
    LET areas == LinearDevAreas(b.linear_devs \o <<sld>>)
    IN  /\ \A k \in 1..Len(areas) :
              /\ MDA_ZONE_SECTORS <= areas[k][1]
              /\ areas[k][1] + areas[k][2] <= b.sectors - MDA_ZONE_SECTORS
        /\ \A j, k \in 1..Len(areas) :
              j < k => (areas[j][1] + areas[j][2] <= areas[k][1]
                        \/ areas[k][1] + areas[k][2] <= areas[j][1])

InitDiscover ==
    /\ bd = InitializedBlockDev
    /\ disk = InitializedDisk
    /\ last = Op("initialize", "Ok", "none")
    /\ lastOkSlot = "none"
    /\ now = Timespec(0, 0)
    /\ calls = 0
    /\ \E sz \in SavedSizes : pool = <<InitializedMember(sz)>>
    /\ carve = NotCalled
    /\ sizing = NotSized
    /\ thin = NoThin
    /\ froyo = NoFroyo
    /\ raid = NoRaid

(* from_save: LinearDev::create from the saved segments, pushed onto its   *)
(* parent block device                                                     *)
FromSaveLinearDev ==
    /\ \E i \in DOMAIN pool :
          /\ Len(pool[i].linear_devs) < MaxSavedDevs
          /\ \E sld \in SavedLinearDevs(pool[i].sectors) :
                /\ WellFormedSave(pool[i], sld)
                /\ pool' = [pool EXCEPT ![i].linear_devs = Append(@, sld)]
    /\ UNCHANGED <<topVars, mdaVars, carve, raidVars>>

NextDiscover == FromSaveLinearDev

SpecDiscover == InitDiscover /\ [][NextDiscover]_vars

----------------------------------------------------------------------------
(* The sizes create_redundant_zone computes, for every common free length  *)
(* and every region count of a bounded range.                              *)

MaxCommonExtra == 100  \* common free lengths are MIN_DATA_ZONE_SECTORS + 0..MaxCommonExtra
MaxRegionCount == 20   \* region counts are 1..MaxRegionCount

CommonLens == {MIN_DATA_ZONE_SECTORS + k : k \in 0..MaxCommonExtra}

InitSizing ==
    /\ bd = InitializedBlockDev
    /\ disk = InitializedDisk
    /\ last = Op("initialize", "Ok", "none")
    /\ lastOkSlot = "none"
    /\ now = Timespec(0, 0)
    /\ calls = 0
    /\ pool = NoPool
    /\ carve = NotCalled
    /\ sizing = NotSized
    /\ thin = NoThin
    /\ froyo = NoFroyo
    /\ raid = NoRaid

(* region_sectors and region_count for a common free length *)
SizeRegions ==
    /\ \E common_free_sectors \in CommonLens :
          sizing' = [op |-> "regions",
                     common_free_sectors |-> common_free_sectors,
                     region_sectors |-> RegionSectors(common_free_sectors),
                     region_count |-> RegionCount(common_free_sectors,
                                                  RegionSectors(common_free_sectors)),
                     mdata_sectors |-> 0]
    /\ UNCHANGED <<topVars, mdaVars, poolVars, raid>>

(* mdata_sectors for a region count *)
SizeBitmap ==
    /\ \E region_count \in 1..MaxRegionCount :
          sizing' = [op |-> "bitmap", common_free_sectors |-> 0, region_sectors |-> 0,
                     region_count |-> region_count,
                     mdata_sectors |-> MdataSectors(region_count)]
    /\ UNCHANGED <<topVars, mdaVars, poolVars, raid>>

NextSizing ==
    \/ SizeRegions
    \/ SizeBitmap

SpecSizing == InitSizing /\ [][NextSizing]_vars

----------------------------------------------------------------------------
(* ThinPoolDev::status: the rows table_status returned, the one status     *)
(* line split at spaces.  A field is a sequence of characters; the fields  *)
(* the code compares whole are one word.                                   *)

MaxRows == 2           \* rows table_status returns
MaxFields == 9         \* fields of the status line

Word(w) == <<w>>
FirstFields == {<<"0">>, <<"F", "a">>, <<"F", "a", "i", "l">>,
                <<"F", "a", "i", "l", "e", "d">>}
UsageFields == {<<"1", "/", "1">>, <<"1", "1", "/", "1">>, <<"1">>, <<"x", "/", "1">>,
                <<"1", "/", "x">>, <<"1", "/">>, <<>>, <<"1", "/", "1", "/", "x">>}
ModeFields == {Word("rw"), Word("ro"), Word("out_of_data_space"), Word("-")}
CheckFields == {Word("-"), Word("needs_check"), Word("rw")}

StatusLine(n, first, meta, data, mode, check) ==
    [i \in 1..n |-> CASE i = 1 -> first
                      [] i = 2 -> meta
                      [] i = 3 -> data
                      [] i = 5 -> mode
                      [] i = 8 -> check
                      [] OTHER -> Word("-")]

StatusLines ==
    {StatusLine(n, first, meta, data, mode, check) :
        n \in 1..MaxFields, first \in FirstFields, meta \in UsageFields,
        data \in {<<"1", "/", "1">>, <<"x">>}, mode \in ModeFields, check \in CheckFields}

(* str::starts_with *)
StartsWith(str, prefix) ==
    Len(str) >= Len(prefix) /\ SubSeq(str, 1, Len(prefix)) = prefix

(* str::split(sep): the pieces between the separators *)
RECURSIVE SplitFrom(_, _, _)
SplitFrom(str, sep, piece) ==
    IF str = <<>> THEN <<piece>>
    ELSE IF Head(str) = sep THEN <<piece>> \o SplitFrom(Tail(str), sep, <<>>)
    ELSE SplitFrom(Tail(str), sep, Append(piece, Head(str)))

Split(str, sep) == SplitFrom(str, sep, <<>>)

(* str::parse::<u64>() is Ok: digits, and at least one *)
Digits == {"0", "1"}
ParsesU64(str) == str # <<>> /\ \A i \in 1..Len(str) : str[i] \in Digits

(* vals[0].parse().unwrap() and vals[1].parse().unwrap() go through *)
UsageParses(vals) == Len(vals) >= 2 /\ ParsesU64(vals[1]) /\ ParsesU64(vals[2])

(* the usage block: "usage" when all four numbers parse, a panic otherwise *)
Usage(status_vals) ==
    IF UsageParses(Split(status_vals[2], "/")) /\ UsageParses(Split(status_vals[3], "/"))
    THEN "usage" ELSE "Panic"

(* match status_vals[7], then match status_vals[4] *)
MatchCheckThenMode(check, mode) ==
    IF check = Word("needs_check") THEN "NeedsCheck"
    ELSE IF check # Word("-") THEN "Err"
    ELSE IF mode = Word("rw") THEN "Good"
    ELSE IF mode = Word("ro") THEN "ReadOnly"
    ELSE IF mode = Word("out_of_data_space") THEN "OutOfSpace"
    ELSE "Err"

(* ThinPoolDev::status on rows rows, the row (when there is one) being     *)
(* status_vals: "Err", "Panic", "Fail", or the working status              *)
ThinPoolStatus(rows, status_vals) ==
    IF rows # 1 THEN "Err"
    ELSE IF StartsWith(status_vals[1], <<"F", "a", "i", "l">>) THEN "Fail"
    ELSE IF Len(status_vals) < 8 THEN "Err"
    ELSE IF Usage(status_vals) = "Panic" THEN "Panic"
    ELSE MatchCheckThenMode(status_vals[8], status_vals[5])

InitThinStatus ==
    /\ bd = InitializedBlockDev
    /\ disk = InitializedDisk
    /\ last = Op("initialize", "Ok", "none")
    /\ lastOkSlot = "none"
    /\ now = Timespec(0, 0)
    /\ calls = 0
    /\ pool = NoPool
    /\ carve = NotCalled
    /\ sizing = NotSized
    /\ raid = NoRaid
    /\ \E rows \in 0..MaxRows : \E status_vals \in StatusLines :
          thin = [op |-> "table_status", rows |-> rows, status_vals |-> status_vals,
                  res |-> "none"]
    /\ froyo = NoFroyo

(* status() on what table_status returned *)
ThinPoolStatusCall ==
    /\ thin.op = "table_status"
    /\ thin' = [thin EXCEPT !.op = "status",
                            !.res = ThinPoolStatus(thin.rows, thin.status_vals)]
    /\ UNCHANGED <<mdaVars, poolVars, raidVars, froyo>>

NextThinStatus == ThinPoolStatusCall

SpecThinStatus == InitThinStatus /\ [][NextThinStatus]_vars

----------------------------------------------------------------------------
(* RaidDev::status and Froyo::status.  A zone is the health characters its *)
(* raid target reports, one for each member.                               *)

MaxZones == 2          \* RAID zones of the pool

HealthChars == {"A", "a", "D", "x"}
ZoneHealths == UNION {[1..n -> HealthChars] : n \in 2..MaxMembers}

(* match bad, had every count of bad members been Degraded *)
RaidStatusNeverFailed(bad) ==
    IF bad = 0 THEN [kind |-> "Good", k |-> 0] ELSE [kind |-> "Degraded", k |-> bad]

(* match bad: 0, 1...FROYO_REDUNDANCY, _ *)
RaidStatusOf(bad) ==
    IF bad = 0 THEN [kind |-> "Good", k |-> 0]
    ELSE IF bad <= FROYO_REDUNDANCY THEN [kind |-> "Degraded", k |-> bad]
    ELSE [kind |-> "Failed", k |-> 0]

(* the loop over the health characters: bad counts the 'D's, any character *)
(* but 'A', 'a', 'D' is an error                                           *)
RECURSIVE HealthLoop(_, _, _)
HealthLoop(health_chars, i, bad) ==
    IF i > Len(health_chars) THEN RaidStatusOf(bad)
    ELSE IF health_chars[i] \in {"A", "a"} THEN HealthLoop(health_chars, i + 1, bad)
    ELSE IF health_chars[i] = "D" THEN HealthLoop(health_chars, i + 1, bad + 1)
    ELSE [kind |-> "Err", k |-> 0]

RaidDevStatus(health_chars) == HealthLoop(health_chars, 1, 0)

(* the loop of Froyo::status over raid_devs: Failed breaks, Degraded(x)    *)
(* is stored, Good leaves the status, an error returns                     *)
RECURSIVE StatusLoop(_, _, _)
StatusLoop(zones, i, status) ==
    IF i > Len(zones) THEN status
    ELSE IF RaidDevStatus(zones[i]).kind = "Err" THEN RaidDevStatus(zones[i])
    ELSE IF RaidDevStatus(zones[i]).kind = "Failed" THEN RaidDevStatus(zones[i])
    ELSE IF RaidDevStatus(zones[i]).kind = "Degraded"
    THEN StatusLoop(zones, i + 1, RaidDevStatus(zones[i]))
    ELSE StatusLoop(zones, i + 1, status)

FroyoStatus(zones) == StatusLoop(zones, 1, [kind |-> "Good", k |-> 0])

InitFroyoStatus ==
    /\ bd = InitializedBlockDev
    /\ disk = InitializedDisk
    /\ last = Op("initialize", "Ok", "none")
    /\ lastOkSlot = "none"
    /\ now = Timespec(0, 0)
    /\ calls = 0
    /\ pool = NoPool
    /\ carve = NotCalled
    /\ sizing = NotSized
    /\ raid = NoRaid
    /\ thin = NoThin
    /\ \E n \in 0..MaxZones : \E zones \in [1..n -> ZoneHealths] :
          froyo = [op |-> "raid_devs", zones |-> zones, res |-> [kind |-> "none", k |-> 0]]

FroyoStatusCall ==
    /\ froyo.op = "raid_devs"
    /\ froyo' = [froyo EXCEPT !.op = "status", !.res = FroyoStatus(froyo.zones)]
    /\ UNCHANGED <<mdaVars, poolVars, raidVars, thin>>

NextFroyoStatus == FroyoStatusCall

SpecFroyoStatus == InitFroyoStatus /\ [][NextFroyoStatus]_vars



----------------------------------------------------------------------------
(* Froyo::from_save: the pool is rebuilt from the saved metadata and the   *)
(* block devices that were found.                                          *)

LaterDmCalls == 4      \* the thin pool's meta and data devices, the thin pool, the thin volume

(* match on the number of missing block devs, had one more been let pass *)
MissingToleratedOneMore(num) == num <= FROYO_REDUNDANCY + 1

(* match froyo_save.block_devs.len() - block_devs.len(): 0 and             *)
(* 1...FROYO_REDUNDANCY go on, any other number is InvalidInput            *)
MissingTolerated(num) == num <= FROYO_REDUNDANCY

(* the LinearDevs of a saved RaidDev whose parent was found: a member      *)
(* whose parent is missing is logged and left out                          *)
RECURSIVE FoundMembers(_, _)
FoundMembers(members, found) ==
    IF members = <<>> THEN <<>>
    ELSE (IF Head(members).parent \in found
          THEN <<PresentMember(Head(members).data_length)>> ELSE <<>>)
         \o FoundMembers(Tail(members), found)

(* One saved RaidDev: a LinearDev (two device mapper calls) for every      *)
(* found member, then RaidDev::create on these.  made: the device mapper   *)
(* calls made before; fail: the call that fails, 0 when none does.         *)
ZoneFromSave(srd, devs, made, fail, checked) ==
    IF fail > made /\ fail <= made + 2 * Len(devs)
    THEN [rd |-> RaidResult("Err", devs, 0, srd.stripe_sectors, srd.region_sectors),
          made |-> fail, live |-> fail - made - 1]
    ELSE [rd |-> RaidDevCreate(devs, srd.stripe_sectors, srd.region_sectors, checked,
                               fail = made + 2 * Len(devs) + 1),
          made |-> made + 2 * Len(devs) + 1,
          live |-> 2 * Len(devs) + (IF fail = made + 2 * Len(devs) + 1 THEN 0 ELSE 1)]

ZonesResult(res, raid_devs, made, live) ==
    [res |-> res, raid_devs |-> raid_devs, made |-> made, live |-> live]

AfterZone(z, raid_devs, live) ==
    ZonesResult(z.rd.res, Append(raid_devs, z.rd), z.made,
                live + (IF z.rd.res \in {"Ok", "Err"} THEN z.live ELSE z.live - 1))

(* the loop over froyo_save.raid_devs: it returns at the first error *)
RECURSIVE ZonesFromSave(_, _, _, _, _)
ZonesFromSave(saved, found, r, fail, checked) ==
    IF r.res # "Ok" \/ Len(r.raid_devs) = Len(saved) THEN r
    ELSE ZonesFromSave(saved, found,
                       AfterZone(ZoneFromSave(saved[Len(r.raid_devs) + 1],
                                              FoundMembers(saved[Len(r.raid_devs) + 1].members,
                                                           found),
                                              r.made, fail, checked),
                                 r.raid_devs, r.live),
                       fail, checked)

(* the devices above the zones: each is one device mapper call *)
LaterFromSave(r, fail) ==
    IF r.res # "Ok" THEN r
    ELSE IF fail > r.made /\ fail <= r.made + LaterDmCalls
    THEN ZonesResult("Err", r.raid_devs, fail, r.live + (fail - r.made - 1))
    ELSE ZonesResult("Ok", r.raid_devs, r.made + LaterDmCalls, r.live + LaterDmCalls)

(* Froyo::from_save with block_devs saved block devices of which found     *)
(* were found                                                              *)
FromSave(block_devs, saved, found, fail, checked) ==
    IF ~MissingTolerated(block_devs - Cardinality(found))
    THEN ZonesResult("InvalidInput", <<>>, 0, 0)
    ELSE LaterFromSave(ZonesFromSave(saved, found, ZonesResult("Ok", <<>>, 0, 0),
                                     fail, checked),
                       fail)

MaxDmCalls == 2 * (2 * MaxMembers + 1) + LaterDmCalls

(* A later run finds some of the block devices of the pool that            *)
(* Froyo::create made and rebuilds the pool from the saved metadata.       *)
FromSaveCall ==
    /\ carve.res = "None"
    /\ carve.zones >= 1
    /\ froyo.op = "none"
    /\ \E found \in (SUBSET DOMAIN pool) \ {{}} : \E fail \in 0..MaxDmCalls :
          \E checked \in BOOLEAN :
             \E r \in {FromSave(Len(pool), carve.saved, found, fail, checked)} :
                /\ fail <= r.made + 1
                /\ froyo' = [op |-> "from_save", found |-> found, fail |-> fail,
                             res |-> r.res, raid_devs |-> r.raid_devs, live |-> r.live]
    /\ UNCHANGED <<mdaVars, poolVars, raidVars, thin>>

NextRestore == CreateRedundantZoneOk \/ FromSaveCall

SpecRestore == InitPool /\ [][NextRestore]_vars

----------------------------------------------------------------------------
(* Froyo::create up to its loop over create_redundant_zone: every path is  *)
(* handed to BlockDev::initialize, then the number of paths is checked.    *)

MIN_PATHS == 2
MAX_PATHS == 8
MaxPaths == 9          \* Froyo::create is given 0..MaxPaths paths

(* what is at a path: a zeroed device of MIN_DEV_SIZE, a device whose      *)
(* first 4K is not zero, a device below MIN_DEV_SIZE                       *)
PathKinds == {"zeroed", "used", "small"}

(* the paths given: zeroed devices and at most one device of another kind  *)
PathLists ==
    UNION {{ps \in [1..n -> PathKinds] :
               Cardinality({i \in 1..n : ps[i] # "zeroed"}) <= 1} : n \in 0..MaxPaths}

(* BlockDev::initialize: the first 4K is read unless forced, the size is   *)
(* checked, and only then write_mda_header stamps the device               *)
BlockDevInitialize(kind, force) ==
    IF kind = "used" /\ ~force THEN "InvalidInput"
    ELSE IF kind = "small" THEN "InvalidInput"
    ELSE "Ok"

(* the paths whose BlockDev::initialize fails *)
Refused(paths, force) == {i \in DOMAIN paths : BlockDevInitialize(paths[i], force) # "Ok"}

(* for path in paths { try!(BlockDev::initialize(..)) }: the paths before  *)
(* the first refused one have been stamped when the loop ends              *)
InitializeLoop(paths, refused) ==
    IF refused = {}
    THEN [res |-> "Ok", stamped |-> DOMAIN paths]
    ELSE [res |-> "InvalidInput",
          stamped |-> {i \in DOMAIN paths : \A j \in refused : i < j}]

(* the two checks on paths.len() that follow the loop *)
PathCountCheck(n) == IF n < MIN_PATHS \/ n > MAX_PATHS THEN "InvalidInput" ELSE "Ok"

FroyoCreate(paths, force) ==
    LET l == InitializeLoop(paths, Refused(paths, force))
    IN  [res |-> IF l.res # "Ok" THEN l.res ELSE PathCountCheck(Len(paths)),
         stamped |-> l.stamped]

InitCreate ==
    /\ bd = InitializedBlockDev
    /\ disk = InitializedDisk
    /\ last = Op("initialize", "Ok", "none")
    /\ lastOkSlot = "none"
    /\ now = Timespec(0, 0)
    /\ calls = 0
    /\ pool = NoPool
    /\ carve = NotCalled
    /\ sizing = NotSized
    /\ thin = NoThin
    /\ \E paths \in PathLists : \E force \in BOOLEAN :
          froyo = [op |-> "paths", paths |-> paths, force |-> force,
                   res |-> "none", stamped |-> {}]
    /\ raid = NoRaid

(* Froyo::create is called: its block_devs are the stamped devices when    *)
(* both checks pass                                                        *)
FroyoCreateCall ==
    /\ froyo.op = "paths"
    /\ \E r \in {FroyoCreate(froyo.paths, froyo.force)} :
          /\ froyo' = [froyo EXCEPT !.op = "create", !.res = r.res, !.stamped = r.stamped]
          /\ pool' = IF r.res = "Ok"
                     THEN [i \in DOMAIN froyo.paths |-> InitializedMember(MIN_DEV_SECTORS)]
                     ELSE pool
    /\ UNCHANGED <<mdaVars, carve, raidVars, thin>>

(* the loop over create_redundant_zone follows *)
FroyoCreateLoop ==
    /\ froyo.op = "create" /\ froyo.res = "Ok"
    /\ CreateRedundantZoneOk

NextCreate == FroyoCreateCall \/ FroyoCreateLoop

SpecCreate == InitCreate /\ [][NextCreate]_vars

----------------------------------------------------------------------------
(* The Members of one pool: Froyo::save_state writes the same payload with *)
(* the same timestamp to each in turn, Froyo::find_all reads them back.    *)

MaxGroup == 2          \* Members of the pool
MaxGroupSaves == 3     \* Froyo::save_state calls in one behaviour

GroupMember(b, d) == [bd |-> b, disk |-> d]

(* the payloads Froyo::save_state hands down: the serialized pool, here    *)
(* any byte string that is not empty, one longer than an MDA zone included *)
GroupPayloads == Payloads \ {<<>>}

(* for bd in self.block_devs.values() { try!(bd.save_state(..)) }: the     *)
(* Member fails_at fails at the step fp names, the loop returns there      *)
RECURSIVE SaveStateLoop(_, _, _, _, _, _)
SaveStateLoop(members, i, time, metadata, fails_at, fp) ==
    IF i > Len(members) THEN [res |-> "Ok", members |-> members]
    ELSE LET r == SaveState(members[i].bd, members[i].disk, time, metadata,
                            IF i = fails_at THEN fp ELSE NoFailure)
             written == [members EXCEPT ![i] = GroupMember(r.bd, r.disk)]
         IN  IF r.res # "Ok" THEN [res |-> r.res, members |-> written]
             ELSE SaveStateLoop(written, i + 1, time, metadata, fails_at, fp)

(* Froyo::save_state: one timestamp from time::now() and one payload for   *)
(* every Member                                                            *)
FroyoSaveState(members, time, metadata, fails_at, fp) ==
    SaveStateLoop(members, 1, time, metadata, fails_at, fp)

(* BlockDev::find_all: BlockDev::new on every device, those it rejects     *)
(* are left out                                                            *)
BlockDevFindAll(members) == [i \in DOMAIN members |-> BlockDevNew(members[i].disk)]

Accepted(reread) == {i \in DOMAIN reread : reread[i].res = "Ok"}

(* the key of find_all's max_by_key: last_updated of the younger slot *)
YoungerTime(b) == Mda(b, YoungerSlot(b)).last_updated

(* max_by_key over the Members of the group: the last of those with the    *)
(* greatest key                                                            *)
NewestBd(reread, bds) ==
    CHOOSE i \in bds :
       /\ \A j \in bds : Cmp(YoungerTime(reread[j].bd), YoungerTime(reread[i].bd)) # "Greater"
       /\ \A j \in bds : j > i => Cmp(YoungerTime(reread[j].bd), YoungerTime(reread[i].bd)) = "Less"

FoundResult(res, found, src, buf) == [res |-> res, found |-> found, src |-> src, buf |-> buf]

(* the payload of the newest Member is read, then the pool is rebuilt by   *)
(* from_save, which counts the Members that are missing; every error ends  *)
(* find_all                                                                *)
FindFromNewest(members, reread, bds, newest) ==
    LET buf == ReadMdax(reread[newest].bd, members[newest].disk)
    IN  IF buf.res # "Ok" THEN FoundResult(buf.res, bds, newest, <<>>)
        ELSE IF ~MissingTolerated(Len(members) - Cardinality(bds))
        THEN FoundResult("InvalidInput", bds, newest, buf.buf)
        ELSE FoundResult("Ok", bds, newest, buf.buf)

(* Froyo::find_all on the devices of one pool: no pool when no device is   *)
(* accepted                                                                *)
FroyoFindAll(members) ==
    LET reread == BlockDevFindAll(members)
    IN  IF Accepted(reread) = {} THEN FoundResult("NoPool", {}, 0, <<>>)
        ELSE FindFromNewest(members, reread, Accepted(reread),
                            NewestBd(reread, Accepted(reread)))

(* damage to a device: the head copy of the header no longer has the       *)
(* magic, or a byte of the head copy of a payload zone has changed         *)
DamagedHeader(d) == [d EXCEPT !.header.fields.magic = "not-froyo"]

DamagedPayload(d, slot) ==
    [d EXCEPT !.mdax[slot] = [i \in DOMAIN @ |-> (@[i] % MaxByte) + 1]]

Damages(d) == {DamagedHeader(d)} \cup {DamagedPayload(d, s) : s \in Slots}

NoFound == FoundResult("none", {}, 0, <<>>)

InitGroup ==
    /\ bd = InitializedBlockDev
    /\ disk = InitializedDisk
    /\ last = Op("initialize", "Ok", "none")
    /\ lastOkSlot = "none"
    /\ now = Timespec(0, 0)
    /\ calls = 0
    /\ pool = NoPool
    /\ carve = NotCalled
    /\ sizing = NotSized
    /\ thin = NoThin
    /\ \E n \in 2..MaxGroup :
          froyo = [op |-> "create",
                   members |-> [i \in 1..n |-> GroupMember(InitializedBlockDev, InitializedDisk)],
                   saves |-> 0, time |-> Timespec(0, 0), metadata |-> <<>>, res |-> "Ok",
                   completed |-> <<>>, damaged |-> 0, found |-> NoFound]
    /\ raid = NoRaid

(* Froyo::save_state is called; time::now() is whatever the clock of the   *)
(* machine says                                                            *)
FroyoSaveStateCall ==
    /\ froyo.op \in {"create", "save_state"}
    /\ froyo.saves < MaxGroupSaves
    /\ \E time \in Times, metadata \in GroupPayloads, fails_at \in 0..Len(froyo.members) :
          \E fp \in (IF fails_at = 0 THEN {NoFailure} ELSE FailPoints(metadata)) :
             \E r \in {FroyoSaveState(froyo.members, time, metadata, fails_at, fp)} :
                froyo' = [froyo EXCEPT !.op = "save_state", !.members = r.members,
                                       !.saves = @ + 1, !.time = time,
                                       !.metadata = metadata, !.res = r.res,
                                       !.completed = IF r.res = "Ok" THEN metadata ELSE @]
    /\ UNCHANGED <<mdaVars, poolVars, raidVars, thin>>

(* one device of the pool is damaged while the pool is not running *)
DeviceDamaged ==
    /\ froyo.op = "save_state"
    /\ froyo.damaged = 0
    /\ \E i \in DOMAIN froyo.members : \E d \in Damages(froyo.members[i].disk) :
          froyo' = [froyo EXCEPT !.op = "damaged", !.damaged = i, !.members[i].disk = d]
    /\ UNCHANGED <<mdaVars, poolVars, raidVars, thin>>

(* a later run looks for the pool *)
FroyoFindAllCall ==
    /\ froyo.op \in {"save_state", "damaged"}
    /\ froyo' = [froyo EXCEPT !.op = "find_all", !.found = FroyoFindAll(froyo.members)]
    /\ UNCHANGED <<mdaVars, poolVars, raidVars, thin>>

NextGroup == FroyoSaveStateCall \/ DeviceDamaged \/ FroyoFindAllCall

SpecGroup == InitGroup /\ [][NextGroup]_vars

----------------------------------------------------------------------------
(* The thin pool: ThinPoolDev::new, extend_data_dev, extend_meta_dev.      *)
(* A RaidLinearDev is the sequence of the lengths of its RaidSegments, the *)
(* pool's loaded table a sequence of rows.                                 *)

MaxSegLen == 2         \* a RaidSegment has 1..MaxSegLen sectors
MaxSegs == 2           \* segments handed over in one call
MaxExtends == 2        \* extend calls in one behaviour

SegLists == UNION {[1..n -> 1..MaxSegLen] : n \in 1..MaxSegs}

(* RaidLinearDev::length: the sum of the lengths of the segments *)
RECURSIVE RaidLinearLength(_)
RaidLinearLength(segments) ==
    IF segments = <<>> THEN 0 ELSE Head(segments) + RaidLinearLength(Tail(segments))

(* let table = [(0u64, *data_raid_dev.length(), "thin-pool", &*params)] *)
ThinPoolTable(data_segs) == <<[start |-> 0, length |-> RaidLinearLength(data_segs)]>>

(* what ThinPoolDev::status can return to setup *)
StatusOutcomes == {"Good", "NeedsCheck", "ReadOnly", "OutOfSpace", "Fail", "Err", "Panic"}

(* match try!(tpool.status()) in setup *)
StatusChecked(status) ==
    CASE status = "Good" -> "Ok"
      [] status = "Panic" -> "Panic"
      [] OTHER -> "Err"

(* ThinPoolDev::setup: the table is loaded, then the status is checked *)
ThinPoolDevSetup(data_segs, fail, status) ==
    IF fail = "pool" THEN [res |-> "Err", table |-> <<>>]
    ELSE [res |-> StatusChecked(status), table |-> ThinPoolTable(data_segs)]

(* ThinPoolDev::new: the meta dev, cleared, the data dev, then setup *)
ThinPoolDevNew(data_segs, fail, status) ==
    IF fail \in {"meta", "clear", "data"} THEN [res |-> "Err", table |-> <<>>]
    ELSE ThinPoolDevSetup(data_segs, fail, status)

(* RaidLinearDev::extend: the segments are appended and the linear table   *)
(* reloaded; whether the list keeps them when that fails is not said       *)
RaidLinearDevExtend(segments, segs, fails, kept) ==
    IF fails THEN [res |-> "Err", segments |-> IF kept THEN segments \o segs ELSE segments]
    ELSE [res |-> "Ok", segments |-> segments \o segs]

(* dm_reload: the pool's table is built from the data dev's length and     *)
(* loaded in place of the old one                                          *)
DmReload(data_segs, table, fails) ==
    IF fails THEN [res |-> "Err", table |-> table]
    ELSE [res |-> "Ok", table |-> ThinPoolTable(data_segs)]

(* extend_data_dev and extend_meta_dev: try!(extend), then try!(dm_reload) *)
ExtendThenReload(extended, data_segs, table, fail) ==
    IF extended.res # "Ok" THEN [res |-> "ErrExtend", table |-> table]
    ELSE LET r == DmReload(data_segs, table, fail = "reload")
         IN  [res |-> IF r.res = "Ok" THEN "Ok" ELSE "ErrReload", table |-> r.table]

InitThinPool ==
    /\ bd = InitializedBlockDev
    /\ disk = InitializedDisk
    /\ last = Op("initialize", "Ok", "none")
    /\ lastOkSlot = "none"
    /\ now = Timespec(0, 0)
    /\ calls = 0
    /\ pool = NoPool
    /\ carve = NotCalled
    /\ sizing = NotSized
    /\ raid = NoRaid
    /\ \E meta_segs \in SegLists : \E data_segs \in SegLists :
          thin = [op |-> "segs", res |-> "none", meta_segs |-> meta_segs,
                  data_segs |-> data_segs, table |-> <<>>,
                  data_before |-> 0, extends |-> 0]
    /\ froyo = NoFroyo

ThinPoolDevNewCall ==
    /\ thin.op = "segs"
    /\ \E fail \in {"none", "meta", "clear", "data", "pool"} : \E status \in StatusOutcomes :
          \E r \in {ThinPoolDevNew(thin.data_segs, fail, status)} :
             /\ (fail # "none" => status = "Good")
             /\ thin' = [thin EXCEPT !.op = "new", !.res = r.res, !.table = r.table]
    /\ UNCHANGED <<mdaVars, poolVars, raidVars, froyo>>

PoolBuilt == thin.op \in {"extend_data_dev", "extend_meta_dev"} \/ (thin.op = "new" /\ thin.res = "Ok")

ExtendDataDevCall ==
    /\ PoolBuilt
    /\ thin.extends < MaxExtends
    /\ \E segs \in SegLists : \E fail \in {"none", "extend", "reload"} : \E kept \in BOOLEAN :
          \E e \in {RaidLinearDevExtend(thin.data_segs, segs, fail = "extend", kept)} :
             \E r \in {ExtendThenReload(e, e.segments, thin.table, fail)} :
                /\ (fail # "extend" => kept)
                /\ thin' = [thin EXCEPT !.op = "extend_data_dev", !.res = r.res,
                                        !.data_segs = e.segments, !.table = r.table,
                                        !.data_before = RaidLinearLength(thin.data_segs),
                                        !.extends = @ + 1]
    /\ UNCHANGED <<mdaVars, poolVars, raidVars, froyo>>

ExtendMetaDevCall ==
    /\ PoolBuilt
    /\ thin.extends < MaxExtends
    /\ \E segs \in SegLists : \E fail \in {"none", "extend", "reload"} : \E kept \in BOOLEAN :
          \E e \in {RaidLinearDevExtend(thin.meta_segs, segs, fail = "extend", kept)} :
             \E r \in {ExtendThenReload(e, thin.data_segs, thin.table, fail)} :
                /\ (fail # "extend" => kept)
                /\ thin' = [thin EXCEPT !.op = "extend_meta_dev", !.res = r.res,
                                        !.meta_segs = e.segments, !.table = r.table,
                                        !.data_before = RaidLinearLength(thin.data_segs),
                                        !.extends = @ + 1]
    /\ UNCHANGED <<mdaVars, poolVars, raidVars, froyo>>

NextThinPool == ThinPoolDevNewCall \/ ExtendDataDevCall \/ ExtendMetaDevCall

SpecThinPool == InitThinPool /\ [][NextThinPool]_vars

----------------------------------------------------------------------------
(* The thin volumes of a pool: ThinDev::new when one is created,           *)
(* ThinDev::setup when the pool is found again.  What a call does to the   *)
(* pool, the device mapper and the volume is the sequence of its steps.    *)

MaxThinNumber == 1     \* thin numbers are 0..MaxThinNumber
MaxThinSize == 2       \* a thin volume has 1..MaxThinSize sectors
MaxThinCalls == 3      \* calls in one behaviour

ThinStep(cmd, thin_number, size) == [cmd |-> cmd, thin_number |-> thin_number, size |-> size]

(* ThinDev::setup, had it sent create_thin as well *)
ThinDevSetupCreating(thin_number, size, fail) ==
    [res |-> IF fail = "none" THEN "Ok" ELSE "Err",
     steps |-> <<ThinStep("create_thin", thin_number, 0),
                 ThinStep("load", thin_number, size), ThinStep("mknod", thin_number, 0)>>]

(* ThinDev::setup: the "thin" target is loaded with the thin number and    *)
(* the size, the device node made, the status read                         *)
ThinDevSetup(thin_number, size, fail) ==
    CASE fail = "load" -> [res |-> "Err", steps |-> <<>>]
      [] fail = "mknod" -> [res |-> "Err", steps |-> <<ThinStep("load", thin_number, size)>>]
      [] OTHER ->
           [res |-> IF fail = "status" THEN "Err" ELSE "Ok",
            steps |-> <<ThinStep("load", thin_number, size), ThinStep("mknod", thin_number, 0)>>]

(* create_fs after a setup that returned Ok *)
CreateFs(thin_number, set_up, fail) ==
    IF set_up.res # "Ok" THEN set_up
    ELSE IF fail = "mkfs" THEN [res |-> "Err", steps |-> set_up.steps]
    ELSE [res |-> "Ok", steps |-> Append(set_up.steps, ThinStep("mkfs", thin_number, 0))]

(* ThinDev::new: the message "create_thin <n>" to the pool, which refuses  *)
(* a number it has already, then setup, then create_fs                     *)
ThinDevNew(thin_number, size, created, fail) ==
    IF fail = "message" \/ thin_number \in created THEN [res |-> "Err", steps |-> <<>>]
    ELSE LET made == CreateFs(thin_number, ThinDevSetup(thin_number, size, fail), fail)
         IN  [res |-> made.res,
              steps |-> <<ThinStep("create_thin", thin_number, 0)>> \o made.steps]

(* ThinDev::to_save *)
ThinDevSave(thin_number, size) == [thin_number |-> thin_number, size |-> size]

(* the loop of from_save over the saved thin volumes, each set up with its *)
(* saved number and size; it returns at the first error                    *)
RECURSIVE ThinDevsFromSave(_, _, _, _)
ThinDevsFromSave(saved, k, fails_at, fail) ==
    IF k > Len(saved) THEN [res |-> "Ok", steps |-> <<>>]
    ELSE LET one == ThinDevSetup(saved[k].thin_number, saved[k].size,
                                 IF k = fails_at THEN fail ELSE "none")
         IN  IF one.res # "Ok" THEN one
             ELSE LET others == ThinDevsFromSave(saved, k + 1, fails_at, fail)
                  IN  [res |-> others.res, steps |-> one.steps \o others.steps]

HasStep(steps, cmd) == \E i \in DOMAIN steps : steps[i].cmd = cmd

InitThinDev ==
    /\ bd = InitializedBlockDev
    /\ disk = InitializedDisk
    /\ last = Op("initialize", "Ok", "none")
    /\ lastOkSlot = "none"
    /\ now = Timespec(0, 0)
    /\ calls = 0
    /\ pool = NoPool
    /\ carve = NotCalled
    /\ sizing = NotSized
    /\ raid = NoRaid
    /\ thin = [op |-> "pool", res |-> "Ok", thin_number |-> 0, size |-> 0, steps |-> <<>>,
               thin_devs |-> <<>>, saved |-> <<>>, created |-> {}, made |-> 0]
    /\ froyo = NoFroyo

(* a thin volume is created in the running pool *)
ThinDevNewCall ==
    /\ thin.made < MaxThinCalls
    /\ \E thin_number \in 0..MaxThinNumber : \E size \in 1..MaxThinSize :
          \E fail \in {"none", "message", "load", "mknod", "status", "mkfs"} :
             \E r \in {ThinDevNew(thin_number, size, thin.created, fail)} :
                thin' = [thin EXCEPT !.op = "new", !.res = r.res,
                            !.thin_number = thin_number, !.size = size, !.steps = r.steps,
                            !.thin_devs = IF r.res = "Ok"
                                          THEN Append(@, ThinDevSave(thin_number, size))
                                          ELSE @,
                            !.created = IF HasStep(r.steps, "create_thin")
                                        THEN @ \cup {thin_number} ELSE @,
                            !.made = @ + 1]
    /\ UNCHANGED <<mdaVars, poolVars, raidVars, froyo>>

(* a later run finds the pool and sets up the thin volumes that were saved *)
ThinDevsFromSaveCall ==
    /\ thin.made < MaxThinCalls
    /\ \E fails_at \in 0..Len(thin.thin_devs) :
          \E fail \in (IF fails_at = 0 THEN {"none"} ELSE {"load", "mknod", "status"}) :
             \E r \in {ThinDevsFromSave(thin.thin_devs, 1, fails_at, fail)} :
                thin' = [thin EXCEPT !.op = "from_save", !.res = r.res, !.steps = r.steps,
                            !.saved = thin.thin_devs,
                            !.thin_devs = IF r.res = "Ok" THEN @ ELSE <<>>,
                            !.made = @ + 1]
    /\ UNCHANGED <<mdaVars, poolVars, raidVars, froyo>>

NextThinDev == ThinDevNewCall \/ ThinDevsFromSaveCall

SpecThinDev == InitThinDev /\ [][NextThinDev]_vars

----------------------------------------------------------------------------
(* Claims about the MDA protocol of one Member *)

SaveStateStep == calls' = calls + 1 /\ last'.op = "save_state"
SaveStateOkStep == SaveStateStep /\ last'.res = "Ok"
SomeSaveCompleted == lastOkSlot # "none"

OtherSlot(s) == IF s = "A" THEN "B" ELSE "A"

(* C1: a write_mdax(time, p) that succeeds, whatever the timestamp and     *)
(* whatever the slots held before, is followed by a read_mdax that returns *)
(* exactly p.  Every step in which save_state got past write_mdax is       *)
(* looked at: the read is made on the state the call leaves.               *)
C1_WriteThenReadReturnsPayload ==
    [][\A time \in Times, metadata \in Payloads :
          \A fp \in {f \in FailPoints(metadata) \cup {NoFailure} : f.at \notin MdaxSteps} :
             ( /\ Len(metadata) <= MDAX_ZONE_BYTES
               /\ SaveStateCall(time, metadata, fp) )
             => ReadMdax(bd', disk') = [res |-> "Ok", buf |-> metadata]]_vars

(* C2: a save_state that returns Ok leaves exactly one slot with a         *)
(* last_updated strictly greater than before, and the other slot's         *)
(* descriptor as it was.                                                   *)
C2_ExactlyOneSlotNewer ==
    [][SaveStateOkStep =>
          \E s \in Slots :
             /\ Cmp(Mda(bd, s).last_updated, Mda(bd', s).last_updated) = "Less"
             /\ Mda(bd', OtherSlot(s)) = Mda(bd, OtherSlot(s))]_vars

(* C3: once a save_state has completed, after any later save_state calls   *)
(* that fail at any I/O step and are re-attempted on the same in-memory    *)
(* BlockDev, the slot the on-disk header designates as newest holds a      *)
(* payload whose length and CRC match its on-disk descriptor.  (The claim  *)
(* goes on to say which payload that is; this is the part every reading of *)
(* it shares.)  The on-disk view is what BlockDev::new decodes.            *)
OnDiskRead ==
    LET h == BlockDevNew(disk)
    IN  IF h.res # "Ok" THEN [res |-> h.res, buf |-> <<>>] ELSE ReadMdax(h.bd, disk)

C3_NewestOnDiskStaysValid ==
    (SomeSaveCompleted /\ last.op = "save_state") => OnDiskRead.res = "Ok"

(* C4: a crash inside save_state after the payload write and before the    *)
(* header rewrite leaves the Member such that re-reading it (BlockDev::new *)
(* then read_mdax) returns a payload with a matching CRC.                  *)
BetweenPayloadAndHeader == {"flush", "hdr_open", "hdr_write_head"}

C4_CrashBeforeHeaderKeepsPrevious ==
    (SomeSaveCompleted /\ last.op = "crash" /\ last.at \in BetweenPayloadAndHeader)
        => ReadMdax(bd, disk).res = "Ok"

(* C5: from initialize on, two consecutive successful save_state calls     *)
(* write different slots, and each writes the slot read_mdax would not     *)
(* select, whatever the timestamps.                                        *)
C5_SlotsAlternate ==
    [][SaveStateOkStep =>
          /\ lastOkSlot' # YoungerSlot(bd)
          /\ (SomeSaveCompleted => lastOkSlot' # lastOkSlot)]_vars

(* C6: save_state with a payload longer than the zone returns InvalidInput *)
(* and leaves the device and both in-memory descriptors as they were.      *)
C6_OversizedRejectedUnchanged ==
    [][(SaveStateStep /\ last'.at = "oversized")
          => (last'.res = "InvalidInput" /\ bd' = bd /\ disk' = disk)]_vars

C6_Witness ==
    /\ last.op = "save_state" /\ last.at = "oversized" /\ last.res = "InvalidInput"
    /\ bd.mdaa.length > 0 /\ bd.mdab.length > 0

(* C7: after the header is stamped (initialize, or a save_state that       *)
(* returns Ok), BlockDev::new yields the member id, pool id, sector count  *)
(* and both MDA descriptors of the in-memory Member.                       *)
C7_HeaderRoundTrip ==
    (last.op \in {"initialize", "save_state"} /\ last.res = "Ok")
        => BlockDevNew(disk) = [res |-> "Ok", bd |-> bd]

C7_Witness ==
    /\ last.op = "save_state" /\ last.res = "Ok"
    /\ bd.mdaa.length > 0 /\ bd.mdab.length = 0
    /\ bd.mdab.last_updated.sec > 0 /\ bd.mdab.last_updated.nsec > 0
    /\ bd.mdaa.crc # bd.mdab.crc

(* C8: when the head copy of the header, or of the newest payload, fails   *)
(* its CRC check and the trailer copy is intact, reading the Member falls  *)
(* back on the trailer copy and succeeds.                                  *)
PayloadValid(zones) ==
    LET m == Mda(bd, YoungerSlot(bd))
    IN  checksum_ieee(ReadExact(zones[YoungerSlot(bd)], m.length)) = m.crc

C8_TrailerFallback ==
    /\ (last.op = "new" /\ ~HeaderValid(disk.header) /\ HeaderValid(disk.header_trailer))
          => last.res = "Ok"
    /\ (last.op = "read_mdax" /\ SomeSaveCompleted
        /\ ~PayloadValid(disk.mdax) /\ PayloadValid(disk.mdax_trailer))
          => last.res = "Ok"

----------------------------------------------------------------------------
(* Claims about the space map of a Member and about zone carving *)

Covers(area, s) == area[1] <= s /\ s < area[1] + area[2]

Inside(area, lo, hi) == lo <= area[1] /\ area[1] + area[2] <= hi

Disjoint(a, b) == a[1] + a[2] <= b[1] \/ b[1] + b[2] <= a[1]

(* C9: for every Member reached by initialize and any number of zone       *)
(* carvings, the intervals of used_areas() and free_areas() together cover *)
(* [0, sectors) exactly: every interval lies in [0, sectors) and every     *)
(* sector is in exactly one of them.                                       *)
Partition(all, sectors) ==
    /\ \A k \in 1..Len(all) : Inside(all[k], 0, sectors)
    /\ \A s \in 0..(sectors - 1) :
          Cardinality({k \in 1..Len(all) : Covers(all[k], s)}) = 1

C9_UsedAndFreePartition ==
    \A i \in DOMAIN pool :
       Partition(UsedAreas(pool[i]) \o FreeAreas(pool[i]), pool[i].sectors)

(* a Member with two carved zones and a free gap left behind them *)
C9_Witness ==
    \E i \in DOMAIN pool :
       /\ Len(pool[i].linear_devs) = 2
       /\ Len(FreeAreas(pool[i])) = 1
       /\ Len(UsedAreas(pool[i])) = 6

(* C10: after any number of create_redundant_zone calls, on every Member   *)
(* all meta and data segments of all LinearDev children are pairwise       *)
(* disjoint and disjoint from the two MDA zones, and the child made by the *)
(* latest call lies inside the free area it was carved from, its meta      *)
(* segment at the start of the area and its data segment right after it.   *)
C10_SegmentInvariant ==
    \A i \in DOMAIN pool :
       LET segs == LinearDevAreas(pool[i].linear_devs)
           devs == pool[i].linear_devs
       IN  /\ \A j, k \in 1..Len(segs) : j # k => Disjoint(segs[j], segs[k])
           /\ \A k \in 1..Len(segs) :
                 Inside(segs[k], MDA_ZONE_SECTORS, pool[i].sectors - MDA_ZONE_SECTORS)
           /\ i \in carve.pushed =>
                 LET area == carve.areas[i].area
                     meta == SegArea(devs[Len(devs)].meta_segments[1])
                     data == SegArea(devs[Len(devs)].data_segments[1])
                 IN  /\ meta[1] = area[1]
                     /\ data[1] = meta[1] + meta[2]
                     /\ Inside(data, area[1], area[1] + area[2])
                     /\ meta[2] > 0 /\ data[2] > 0

(* a second zone was carved behind the first one on some Member *)
C10_Witness ==
    /\ carve.res = "Some" /\ carve.zones = 2
    /\ \E i \in carve.pushed :
          /\ Len(pool[i].linear_devs) = 2
          /\ carve.areas[i].area[1] > MDA_ZONE_SECTORS

----------------------------------------------------------------------------
(* Claims about the sizes of a zone *)

CeilDiv(a, b) == (a + b - 1) \div b

PowersOfTwo == {2 ^ k : k \in 0..20}

(* C13: region_sectors is the smallest DEFAULT_REGION_SECTORS * 2^k for    *)
(* which region_count = ceil(common / region_sectors) is at most           *)
(* MAX_REGIONS, and the computed region_count is the ceiling and never     *)
(* exceeds MAX_REGIONS.                                                    *)
C13_RegionSizing ==
    sizing.op = "regions" =>
        LET fits(r) == CeilDiv(sizing.common_free_sectors, r) <= MAX_REGIONS
            candidates == {DEFAULT_REGION_SECTORS * pw : pw \in PowersOfTwo}
        IN  /\ sizing.region_sectors \in candidates
            /\ fits(sizing.region_sectors)
            /\ \A r \in candidates : fits(r) => sizing.region_sectors <= r
            /\ sizing.region_count
                  = CeilDiv(sizing.common_free_sectors, sizing.region_sectors)
            /\ sizing.region_count <= MAX_REGIONS

(* C15: for every region_count the metadata length is                      *)
(* next_power_of_two(align_up(8192 + ceil(region_count / 8), 512)) / 512   *)
(* sectors, the division by 8 rounded up.                                  *)
C15_BitmapSizing ==
    sizing.op = "bitmap" =>
        sizing.mdata_sectors
            = next_power_of_two(align_to(BITMAP_HEADER_BYTES
                                            + CeilDiv(sizing.region_count, REGIONS_PER_BYTE),
                                         SECTOR_SIZE))
              \div SECTOR_SIZE

----------------------------------------------------------------------------
(* Claims about largest_free_area *)

MaxLen(free) == CHOOSE n \in {free[i][2] : i \in 1..Len(free)} :
                    \A i \in 1..Len(free) : free[i][2] <= n

IsLongest(free, r) ==
    /\ r.some
    /\ \E i \in 1..Len(free) : free[i] = r.area
    /\ r.area[2] = MaxLen(free)

LowestOfLongest(free, r) ==
    \A i \in 1..Len(free) : free[i][2] = MaxLen(free) => r.area[1] <= free[i][1]

HighestOfLongest(free, r) ==
    \A i \in 1..Len(free) : free[i][2] = MaxLen(free) => free[i][1] <= r.area[1]

LargestAsClaimed(free, r) ==
    IF free = <<>> THEN r = None ELSE IsLongest(free, r) /\ LowestOfLongest(free, r)

LargestAsCoded(free, r) ==
    IF free = <<>> THEN r = None ELSE IsLongest(free, r) /\ HighestOfLongest(free, r)

(* C11: largest_free_area returns a free interval of maximum length, of    *)
(* several with the maximum length the one with the lowest start, and None *)
(* when the Member has no free interval.                                   *)
C11_LargestFreeAreaLowestStart ==
    \A i \in DOMAIN pool :
       LargestAsClaimed(FreeAreas(pool[i]), LargestFreeArea(pool[i]))

(* C11 as amended: of several free intervals with the maximum length,      *)
(* largest_free_area returns the one with the highest start.               *)
C11_LargestFreeAreaHighestStart ==
    \A i \in DOMAIN pool :
       LargestAsCoded(FreeAreas(pool[i]), LargestFreeArea(pool[i]))

TwoLongest(free) ==
    \E i, j \in 1..Len(free) :
       i # j /\ free[i][2] = MaxLen(free) /\ free[j][2] = MaxLen(free)

(* a Member with two free intervals of the maximum length *)
C11_Witness ==
    \E i \in DOMAIN pool :
       /\ Len(pool[i].linear_devs) > 0
       /\ Len(FreeAreas(pool[i])) >= 2
       /\ TwoLongest(FreeAreas(pool[i]))

----------------------------------------------------------------------------
(* Claims about the carving loop *)

RECURSIVE SumLens(_)
SumLens(areas) == IF areas = <<>> THEN 0 ELSE Head(areas)[2] + SumLens(Tail(areas))

FreeSectors(b) == SumLens(FreeAreas(b))

Qualifying(p) ==
    {i \in DOMAIN p : \E k \in 1..Len(FreeAreas(p[i])) :
                         FreeAreas(p[i])[k][2] >= MIN_DATA_ZONE_SECTORS}

ZoneShrinksItsMembers ==
    carve'.res = "Some" =>
       /\ Cardinality(carve'.pushed) >= 2
       /\ \A i \in carve'.pushed : FreeSectors(pool'[i]) < FreeSectors(pool[i])

(* C12: the loop of Froyo::create reaches a call of create_redundant_zone  *)
(* that returns None; every zone made before strictly reduces the free     *)
(* space of every Member it uses; and when None is returned fewer than two *)
(* Members have a free area of at least MIN_DATA_ZONE_SECTORS.             *)
C12_CarvingTerminates ==
    /\ <>(carve.res = "None")
    /\ [][ZoneShrinksItsMembers]_vars
    /\ [](carve.res = "None" => Cardinality(Qualifying(pool)) < 2)

(* the loop has stopped after making zones *)
C12_Witness == carve.res = "None" /\ carve.zones >= 2

----------------------------------------------------------------------------
(* Claims about RaidDev::create *)

IsRegionSize(r) == \E pw \in PowersOfTwo : r = DEFAULT_REGION_SECTORS * pw

(* C14: every RaidDev built by pool creation has at most MAX_REGIONS       *)
(* regions over its length, ceil(length / region_sectors) <= MAX_REGIONS,  *)
(* with region_sectors DEFAULT_REGION_SECTORS times a power of two.        *)
C14_RegionBound ==
    (raid.res = "Ok" /\ carve.res = "Some") =>
       /\ IsRegionSize(raid.region_sectors)
       /\ CeilDiv(raid.length, raid.region_sectors) <= MAX_REGIONS

CommonDataLength(devs, d) ==
    /\ PresentDevs(devs) # {}
    /\ \A i \in PresentDevs(devs) : devs[i].data_length = d

StripeFloor(x) == CHOOSE d \in 0..x : d % STRIPE_SECTORS = 0 /\ x - d < STRIPE_SECTORS

(* C16: a RaidDev returned by RaidDev::create for N member positions has   *)
(* length D * (N - 1), D the data length all its Present members share;    *)
(* for a zone carved by create_redundant_zone D is common_free_sectors     *)
(* less the metadata sectors, rounded down to a multiple of                *)
(* STRIPE_SECTORS, so D and the length are multiples of STRIPE_SECTORS.    *)
C16_RaidLengthLaw ==
    raid.res = "Ok" =>
       /\ \E d \in {raid.devs[i].data_length : i \in DOMAIN raid.devs} :
             /\ CommonDataLength(raid.devs, d)
             /\ raid.length = d * (Len(raid.devs) - 1)
       /\ carve.res = "Some" =>
             /\ CommonDataLength(raid.devs,
                                 StripeFloor(carve.common_free_sectors - carve.mdata_sectors))
             /\ raid.length % STRIPE_SECTORS = 0

(* a restored RaidDev with an Absent member, and a carved one *)
C16_Witness ==
    /\ raid.res = "Ok"
    /\ \/ Len(raid.devs) = 3 /\ Cardinality(PresentDevs(raid.devs)) = 2
       \/ carve.res = "Some" /\ raid.length > 0 /\ Len(raid.devs) = 3

(* C17: RaidDev::create returns a RaidDev only when at least N - 1 members *)
(* are Present and the Present ones have one data length; for every other  *)
(* member vector, those of fewer than two positions or without a Present   *)
(* member among them, it returns InvalidInput: no RaidDev, no abort.       *)
C17_CreateErrors ==
    raid.res # "none" =>
       LET n == Len(raid.devs)
           present == PresentDevs(raid.devs)
           acceptable == /\ n >= 2
                         /\ Cardinality(present) >= n - 1
                         /\ \A i, j \in present :
                               raid.devs[i].data_length = raid.devs[j].data_length
       IN  /\ raid.res = "Ok" => acceptable
           /\ ~acceptable => raid.res = "InvalidInput"

----------------------------------------------------------------------------
(* Claims about the space map of a RaidDev *)

SectorsOf(start, length) == start..(start + length - 1)

UsedSectors(rd) ==
    UNION {SectorsOf(rd.used[k].start, rd.used[k].length) : k \in 1..Len(rd.used)}

FreeSectorsOf(rd) == (0..(rd.length - 1)) \ UsedSectors(rd)

SegSectors(segs) == UNION {SectorsOf(segs[k][1], segs[k][2]) : k \in 1..Len(segs)}

SafeResult(rd, got) ==
    /\ got.obtained <= got.size
    /\ SumLens(got.segs) = got.obtained
    /\ \A k \in 1..Len(got.segs) :
          got.segs[k][1] >= 0 /\ got.segs[k][1] + got.segs[k][2] <= rd.length
    /\ \A j, k \in 1..Len(got.segs) :
          j # k => SectorsOf(got.segs[j][1], got.segs[j][2])
                   \cap SectorsOf(got.segs[k][1], got.segs[k][2]) = {}
    /\ SegSectors(got.segs) \cap UsedSectors(rd) = {}

GetSomeSpaceStep == raid'.got.called /\ raid'.got.claimed = 0 /\ raid' # raid

(* C18: get_some_space(requested) returns (obtained, segments) with        *)
(* obtained <= requested, the segment lengths summing to obtained, the     *)
(* segments pairwise disjoint, inside [0, length) and disjoint from every  *)
(* used RaidSegment; the call leaves the used set as it was.               *)
C18_GetSomeSpaceSafe ==
    [][GetSomeSpaceStep => (raid'.used = raid.used /\ SafeResult(raid, raid'.got))]_vars

(* get_some_space has returned two segments beside used RaidSegments *)
C18_Witness ==
    /\ raid.got.called /\ raid.got.claimed = 0
    /\ Len(raid.got.segs) >= 2
    /\ Len(raid.used) >= 1

IsWholeFreeRun(rd, seg) ==
    /\ SectorsOf(seg[1], seg[2]) \subseteq FreeSectorsOf(rd)
    /\ seg[1] - 1 \notin FreeSectorsOf(rd)
    /\ seg[1] + seg[2] \notin FreeSectorsOf(rd)

GreedyResult(rd, got) ==
    LET free == FreeSectorsOf(rd)
        total == Cardinality(free)
    IN  /\ got.obtained = (IF got.size <= total THEN got.size ELSE total)
        /\ SegSectors(got.segs) =
              {s \in free : Cardinality({t \in free : t < s}) < got.obtained}
        /\ SumLens(got.segs) = got.obtained
        /\ \A k \in 1..Len(got.segs) : got.segs[k][2] > 0
        /\ \A j, k \in 1..Len(got.segs) : j < k => got.segs[j][1] < got.segs[k][1]
        /\ \A k \in 1..(Len(got.segs) - 1) : IsWholeFreeRun(rd, got.segs[k])
        /\ got.size > total => \A k \in 1..Len(got.segs) : IsWholeFreeRun(rd, got.segs[k])
        /\ got.size = 0 => got.obtained = 0 /\ got.segs = <<>>

(* C19: get_some_space is greedy first-fit with partial results: obtained  *)
(* is the smaller of requested and the free sectors of the RaidDev; the    *)
(* free runs are taken in ascending order of start, each returned segment  *)
(* but the last a whole free run; a request above the free space returns   *)
(* every free run; a request of 0 returns (0, no segment).                 *)
C19_GreedyFirstFit ==
    [][GetSomeSpaceStep => GreedyResult(raid, raid'.got)]_vars

(* a request that the first free run does not fill, answered in part *)
C19_Witness ==
    /\ raid.got.called /\ raid.got.claimed = 0
    /\ Len(raid.got.segs) >= 2
    /\ raid.got.obtained < raid.got.size

----------------------------------------------------------------------------
(* Claims about the thin pool *)

Field(n) == thin.status_vals[n + 1]

(* C21: a status line that starts with "Fail" gives Fail; otherwise field  *)
(* 7 "needs_check" gives NeedsCheck whatever field 4 holds; otherwise      *)
(* field 4 "rw", "ro", "out_of_data_space" give Good, ReadOnly,            *)
(* OutOfSpace; a row count other than 1, fewer than 8 fields, or another   *)
(* value in field 7 or field 4 give an error, never a status.              *)
C21_StatusPrecedence ==
    thin.op = "status" =>
       IF thin.rows # 1 THEN thin.res = "Err"
       ELSE IF StartsWith(Field(0), <<"F", "a", "i", "l">>) THEN thin.res = "Fail"
       ELSE IF Len(thin.status_vals) < 8 THEN thin.res = "Err"
       ELSE IF Field(7) = Word("needs_check") THEN thin.res = "NeedsCheck"
       ELSE IF Field(7) # Word("-") THEN thin.res = "Err"
       ELSE IF Field(4) = Word("rw") THEN thin.res = "Good"
       ELSE IF Field(4) = Word("ro") THEN thin.res = "ReadOnly"
       ELSE IF Field(4) = Word("out_of_data_space") THEN thin.res = "OutOfSpace"
       ELSE thin.res = "Err"

----------------------------------------------------------------------------
(* Claims about the status of the pool *)

BadMembers(health_chars) == Cardinality({i \in DOMAIN health_chars : health_chars[i] = "D"})

KnownHealth(zones) ==
    \A z \in DOMAIN zones : \A i \in DOMAIN zones[z] : zones[z][i] \in {"A", "a", "D"}

WorstStatus(zones) ==
    LET bad == {BadMembers(zones[z]) : z \in DOMAIN zones}
    IN  IF \E b \in bad : b > FROYO_REDUNDANCY THEN [kind |-> "Failed", k |-> 0]
        ELSE IF \E b \in bad : b >= 1
        THEN [kind |-> "Degraded", k |-> CHOOSE b \in bad : \A c \in bad : c <= b]
        ELSE [kind |-> "Good", k |-> 0]

(* C22: the status of the pool is the worst status of its RAID zones in    *)
(* the order Good < Degraded(k) < Failed, whatever the order of the zones, *)
(* k the largest count of degraded members of a zone; a zone is Good with  *)
(* no 'D', Degraded(k) with k in 1..R of them, Failed with more.           *)
C22_PoolStatusIsWorst ==
    (froyo.op = "status" /\ KnownHealth(froyo.zones)) => froyo.res = WorstStatus(froyo.zones)

(* a degraded zone after a failed one *)
C22_Witness ==
    /\ froyo.op = "status"
    /\ Len(froyo.zones) = 2
    /\ BadMembers(froyo.zones[1]) = 2
    /\ BadMembers(froyo.zones[2]) = 1
    /\ KnownHealth(froyo.zones)

----------------------------------------------------------------------------
(* Claims about the kernel devices of a pool *)

(* C25: when Froyo::create returns an error after device mapper devices    *)
(* were created for the pool, none of the devices the call created is      *)
(* left live.                                                              *)
C25_NoDeviceLeftOnError ==
    carve.res = "Err" => carve.live = 0

----------------------------------------------------------------------------
(* Claims about discovery *)

PresentOf(srd, found) == Cardinality({k \in DOMAIN srd.members : srd.members[k].parent \in found})

ShortZone(saved, found) ==
    \E z \in DOMAIN saved :
       PresentOf(saved[z], found) < Len(saved[z].members) - FROYO_REDUNDANCY

(* C23: rebuilding a pool from its saved metadata fails if and only if a   *)
(* RAID zone would have fewer than N - R Present members; with at least    *)
(* N - R Present members in every zone (the device mapper doing what it is *)
(* asked) the pool is returned.                                            *)
C23_DiscoveryTolerance ==
    froyo.op = "from_save" =>
       /\ ShortZone(carve.saved, froyo.found) => froyo.res = "InvalidInput"
       /\ (~ShortZone(carve.saved, froyo.found) /\ froyo.fail = 0) => froyo.res = "Ok"
       /\ froyo.res = "InvalidInput" => ShortZone(carve.saved, froyo.found)

(* a pool of three is rebuilt with one of its members missing *)
C23_Witness ==
    /\ froyo.op = "from_save"
    /\ Len(pool) = 3 /\ Cardinality(froyo.found) = 2
    /\ froyo.res = "Ok"

(* C30: a zone rebuilt while one of its members is missing has the saved   *)
(* number of member positions in the saved order, the missing member's     *)
(* position Absent, and the saved length.                                  *)
C30_RebuiltZoneKeepsShape ==
    froyo.op = "from_save" =>
       \A z \in DOMAIN froyo.raid_devs :
          froyo.raid_devs[z].res = "Ok" =>
             /\ Len(froyo.raid_devs[z].devs) = Len(carve.saved[z].members)
             /\ \A k \in DOMAIN froyo.raid_devs[z].devs :
                   /\ froyo.raid_devs[z].devs[k].present
                         = (carve.saved[z].members[k].parent \in froyo.found)
                   /\ froyo.raid_devs[z].devs[k].data_length
                         = carve.saved[z].members[k].data_length
             /\ froyo.raid_devs[z].length = carve.saved[z].length

----------------------------------------------------------------------------
(* Claims about Froyo::create *)

(* C29: Froyo::create with fewer than 2 or more than 8 paths returns       *)
(* InvalidInput and has stamped a header on none of the given devices.     *)
C29_CountCheckedBeforeStamping ==
    (froyo.op = "create" /\ (Len(froyo.paths) < MIN_PATHS \/ Len(froyo.paths) > MAX_PATHS))
       => (froyo.res = "InvalidInput" /\ froyo.stamped = {})

----------------------------------------------------------------------------
(* Claims about the Members of one pool *)

(* what a later run reads from Member i: BlockDev::new, then read_mdax *)
Reread(m) ==
    LET n == BlockDevNew(m.disk)
    IN  IF n.res # "Ok" THEN [res |-> n.res, buf |-> <<>>, time |-> Timespec(0, 0)]
        ELSE LET r == ReadMdax(n.bd, m.disk)
             IN  [res |-> r.res, buf |-> r.buf, time |-> YoungerTime(n.bd)]

SlotTimes(m) ==
    LET n == BlockDevNew(m.disk)
    IN  IF n.res # "Ok" THEN {} ELSE {n.bd.mdaa.last_updated, n.bd.mdab.last_updated}

GreatestTime(members, t) ==
    \A i \in DOMAIN members : \A u \in SlotTimes(members[i]) : Cmp(u, t) # "Greater"

Unreadable(members) == {i \in DOMAIN members : Reread(members[i]).res # "Ok"}

(* the payload find_all returns is that of a slot no slot is newer than *)
NewestIsSource ==
    (froyo.op = "find_all" /\ froyo.found.res = "Ok") =>
       /\ GreatestTime(froyo.members, Reread(froyo.members[froyo.found.src]).time)
       /\ froyo.found.buf = Reread(froyo.members[froyo.found.src]).buf

(* C24: find_all rebuilds the pool from the payload of the slot with the   *)
(* greatest last_updated of all slots of all Members; a Member whose slots *)
(* are all older is never the source; and one corrupt Member among intact  *)
(* ones does not make discovery fail.                                      *)
C24_NewestWins ==
    froyo.op = "find_all" =>
       /\ NewestIsSource
       /\ (froyo.completed # <<>> /\ Cardinality(Unreadable(froyo.members)) = 1
              /\ froyo.damaged \in Unreadable(froyo.members))
             => froyo.found.res = "Ok"

(* C26: after Froyo::save_state has returned Ok every Member holds the     *)
(* same payload with the same last_updated in its newest slot; after it    *)
(* has returned an error each Member's newest slot holds the new payload   *)
(* or the payload of the previous completed save.                          *)
C26_MembersAgree ==
    (froyo.op = "save_state" /\ froyo.completed # <<>>) =>
       \A i \in DOMAIN froyo.members :
          LET ri == Reread(froyo.members[i])
          IN  IF froyo.res = "Ok"
              THEN /\ ri.res = "Ok"
                   /\ \A j \in DOMAIN froyo.members :
                         /\ Reread(froyo.members[j]).buf = ri.buf
                         /\ Reread(froyo.members[j]).time = ri.time
              ELSE ri.res = "Ok" /\ ri.buf \in {froyo.metadata, froyo.completed}

----------------------------------------------------------------------------
(* Claims about the thin pool and the thin volumes *)

(* the table after a call that returned Ok, and the data length over      *)
(* extend_meta_dev                                                         *)
TableAfterOk ==
    /\ (PoolBuilt /\ thin.res = "Ok") =>
          thin.table = <<[start |-> 0, length |-> RaidLinearLength(thin.data_segs)]>>
    /\ thin.op = "extend_meta_dev" => RaidLinearLength(thin.data_segs) = thin.data_before

(* C28: after ThinPoolDev::new and after every extend_data_dev and         *)
(* extend_meta_dev the pool's table is the one row [0, data_dev.length()); *)
(* extend_meta_dev leaves that length as it was; and when the reload of    *)
(* the pool's table fails the extended data dev keeps no segment the       *)
(* loaded table does not cover.                                            *)
C28_TableCoversDataDev ==
    /\ TableAfterOk
    /\ (thin.op = "extend_data_dev" /\ thin.res = "ErrReload") =>
          RaidLinearLength(thin.data_segs) <= thin.table[1].length

(* the place of the first step cmd among steps, 0 when there is none *)
StepAt(steps, cmd) ==
    IF HasStep(steps, cmd) THEN CHOOSE i \in DOMAIN steps :
                                   steps[i].cmd = cmd /\ \A j \in 1..(i - 1) : steps[j].cmd # cmd
    ELSE 0

====
